---- MODULE Spec2Model ----
(***************************************************************************)
(* Verification model of the ray tracer RaytracingGraficas (Rust).         *)
(*                                                                         *)
(* The model follows src/src/*.rs: the intersection routines of Sphere and *)
(* Cube, the texture lookup of Material, the shading functions cast_shadow *)
(* and cast_ray, the band-parallel render loop and the interactive loop of *)
(* main.                                                                   *)
(*                                                                         *)
(* Numbers.  An f32 is modelled as a fixed-point integer with Unit steps   *)
(* per 1.0, or as one of the IEEE specials PInf, NInf and NaN.  Every      *)
(* arithmetic operator below follows the IEEE rules for the specials       *)
(* (x/0, 0*inf, inf-inf, comparisons with NaN, min/max with NaN) and       *)
(* rounds finite results toward zero to the next fixed-point step.  On the *)
(* inputs whose intermediate values are multiples of 1/Unit the model      *)
(* computes exactly what the f32 code computes.                            *)
(*                                                                         *)
(* Functions.  A function of the source is a TLA+ function f[x \in Any]    *)
(* with the source's name and parameters; applying it evaluates each       *)
(* argument once, as a call does.  Loops and recursive calls are RECURSIVE *)
(* operators.                                                              *)
(***************************************************************************)
EXTENDS Integers, Sequences, FiniteSets, TLC

\* ------------------------------------------------------------------------
\* f32 arithmetic
\* ------------------------------------------------------------------------
Unit == 10 * 10 * 10
PInf == Unit * Unit * Unit + 1
NInf == 0 - PInf
NaN == PInf + 2

IsNaN[a \in Any] == a = NaN
IsInf[a \in Any] == a = PInf \/ a = NInf
IsFin[a \in Any] == ~IsNaN[a] /\ ~IsInf[a]

Abs[n \in Any] == IF n < 0 THEN 0 - n ELSE n
Sgn[n \in Any] == IF n < 0 THEN 0 - 1 ELSE IF n > 0 THEN 1 ELSE 0
Min2[a \in Any, b \in Any] == IF a < b THEN a ELSE b
Max2[a \in Any, b \in Any] == IF a > b THEN a ELSE b

\* a literal n/d of the source as a fixed-point value
Lit[n \in Any, d \in Any] == (n * Unit) \div d
F[n \in Any] == n * Unit

\* |a| * |b| / Unit on naturals, split so that no intermediate product
\* leaves the range of the checker's integers
MulNat[a \in Any, b \in Any] ==
    LET hi == Max2[a, b]
        lo == Min2[a, b]
    IN  (hi \div Unit) * lo + ((hi % Unit) * lo) \div Unit

\* |a| * Unit / |b| on naturals, b > 0
DivNat[a \in Any, b \in Any] == (a \div b) * Unit + ((a % b) * Unit) \div b

FNeg[a \in Any] == IF IsNaN[a] THEN NaN ELSE 0 - a

FAbs[a \in Any] == IF IsNaN[a] THEN NaN ELSE Abs[a]

FAdd[a \in Any, b \in Any] ==
    IF IsNaN[a] \/ IsNaN[b] THEN NaN
    ELSE IF IsInf[a] /\ IsInf[b] THEN (IF a = b THEN a ELSE NaN)
    ELSE IF IsInf[a] THEN a
    ELSE IF IsInf[b] THEN b
    ELSE a + b

FSub[a \in Any, b \in Any] == FAdd[a, FNeg[b]]

FMul[a \in Any, b \in Any] ==
    IF IsNaN[a] \/ IsNaN[b] THEN NaN
    ELSE IF IsInf[a] \/ IsInf[b]
         THEN (IF a = 0 \/ b = 0 THEN NaN
               ELSE IF Sgn[a] * Sgn[b] > 0 THEN PInf ELSE NInf)
    ELSE Sgn[a] * Sgn[b] * MulNat[Abs[a], Abs[b]]

\* a zero divisor is taken as +0.0
FDiv[a \in Any, b \in Any] ==
    IF IsNaN[a] \/ IsNaN[b] THEN NaN
    ELSE IF IsInf[a] /\ IsInf[b] THEN NaN
    ELSE IF IsInf[a] THEN (IF Sgn[a] * Sgn[b] >= 0 THEN PInf ELSE NInf)
    ELSE IF IsInf[b] THEN 0
    ELSE IF b = 0
         THEN (IF a = 0 THEN NaN ELSE IF a > 0 THEN PInf ELSE NInf)
    ELSE Sgn[a] * Sgn[b] * DivNat[Abs[a], Abs[b]]

\* comparisons are false as soon as one side is NaN
FLt[a \in Any, b \in Any] == ~IsNaN[a] /\ ~IsNaN[b] /\ a < b
FGt[a \in Any, b \in Any] == ~IsNaN[a] /\ ~IsNaN[b] /\ a > b
FLe[a \in Any, b \in Any] == ~IsNaN[a] /\ ~IsNaN[b] /\ a <= b
FNe[a \in Any, b \in Any] == IsNaN[a] \/ IsNaN[b] \/ a # b

\* f32::min and f32::max return the other operand when one is NaN
FMin[a \in Any, b \in Any] == IF IsNaN[a] THEN b ELSE IF IsNaN[b] THEN a ELSE Min2[a, b]
FMax[a \in Any, b \in Any] == IF IsNaN[a] THEN b ELSE IF IsNaN[b] THEN a ELSE Max2[a, b]

\* f32::clamp(lo, hi) keeps NaN
FClamp[a \in Any, lo \in Any, hi \in Any] ==
    IF IsNaN[a] THEN NaN ELSE IF a < lo THEN lo ELSE IF a > hi THEN hi ELSE a

\* floor of the square root of a natural, by bisection
RECURSIVE IsqrtIter(_, _, _)
IsqrtIter(n, lo, hi) ==
    IF hi - lo <= 1 THEN lo
    ELSE LET mid == (lo + hi) \div 2
         IN  IF mid * mid <= n THEN IsqrtIter(n, mid, hi)
             ELSE IsqrtIter(n, lo, mid)

Isqrt[n \in Any] == IsqrtIter(n, 0, Min2[n, 46340] + 1)

\* sqrt of the fixed-point value a: isqrt(a/Unit) scaled back
FSqrt[a \in Any] ==
    IF IsNaN[a] THEN NaN
    ELSE IF a = PInf THEN PInf
    ELSE IF a < 0 THEN NaN
    ELSE IF a < 2000 * Unit THEN Isqrt[a * Unit]
    ELSE Isqrt[a \div Unit] * Unit

\* f32::fract: the part after the decimal point, with the sign of a
FFract[a \in Any] ==
    IF IsNaN[a] \/ IsInf[a] THEN NaN
    ELSE Sgn[a] * (Abs[a] % Unit)

\* powf for a natural exponent given as a fixed-point value; powf(x, 0) = 1
FSquare[a \in Any] == FMul[a, a]

\* by repeated squaring
RECURSIVE PowIter(_, _)
PowIter(a, n) ==
    IF n = 0 THEN Unit
    ELSE IF n % 2 = 0 THEN FSquare[PowIter(a, n \div 2)]
    ELSE FMul[a, PowIter(a, n - 1)]

FPowf[a \in Any, e \in Any] == PowIter(a, e \div Unit)

\* `as u8`, `as u32` and `as usize` of an f32: NaN gives 0, the value is
\* truncated toward zero and saturates at the ends of the target type
AsU8[a \in Any] ==
    IF IsNaN[a] THEN 0
    ELSE IF a <= 0 THEN 0
    ELSE IF a >= 255 * Unit THEN 255
    ELSE a \div Unit

\* usize::MAX % w, for the saturated cast of +inf (64-bit usize)
UsizeMaxMod[w \in Any] ==
    LET m16 == 65536 % w
        m32 == (m16 * m16) % w
        m64 == (m32 * m32) % w
    IN  (m64 + w - 1) % w

\* the cast without the wrap-around `% w`
AsUsizeNoWrap(a, w) ==
    IF IsNaN[a] THEN 0
    ELSE IF a <= 0 THEN 0
    ELSE IF a = PInf THEN PInf
    ELSE a \div Unit

\* (a as usize) % w
AsUsizeMod(a, w) ==
    IF IsNaN[a] THEN 0
    ELSE IF a <= 0 THEN 0
    ELSE IF a = PInf THEN UsizeMaxMod[w]
    ELSE (a \div Unit) % w

\* ------------------------------------------------------------------------
\* Vec3 (nalgebra_glm)
\* ------------------------------------------------------------------------
Vec[x \in Any, y \in Any, z \in Any] == <<x, y, z>>
VZero == <<0, 0, 0>>
VAdd[a \in Any, b \in Any] == <<FAdd[a[1], b[1]], FAdd[a[2], b[2]], FAdd[a[3], b[3]]>>
VSub[a \in Any, b \in Any] == <<FSub[a[1], b[1]], FSub[a[2], b[2]], FSub[a[3], b[3]]>>
VNeg[a \in Any] == <<FNeg[a[1]], FNeg[a[2]], FNeg[a[3]]>>
VScale[a \in Any, k \in Any] == <<FMul[a[1], k], FMul[a[2], k], FMul[a[3], k]>>
VDot[a \in Any, b \in Any] == FAdd[FAdd[FMul[a[1], b[1]], FMul[a[2], b[2]]], FMul[a[3], b[3]]]
VCross[a \in Any, b \in Any] ==
    <<FSub[FMul[a[2], b[3]], FMul[a[3], b[2]]],
      FSub[FMul[a[3], b[1]], FMul[a[1], b[3]]],
      FSub[FMul[a[1], b[2]], FMul[a[2], b[1]]]>>
VMagnitude[a \in Any] == FSqrt[VDot[a, a]]
VDivScalar[a \in Any, m \in Any] == <<FDiv[a[1], m], FDiv[a[2], m], FDiv[a[3], m]>>
VNormalize[a \in Any] == VDivScalar[a, VMagnitude[a]]
VComponentMul[a \in Any, b \in Any] == <<FMul[a[1], b[1]], FMul[a[2], b[2]], FMul[a[3], b[3]]>>

\* std::f32::consts::PI, rounded to the nearest step
Pi == Lit[3142, 1000]

\* atan on [0, 1]: (pi/4) t + 0.273 t (1 - t)
AtanUnit[t \in Any] ==
    FAdd[FMul[FDiv[Pi, F[4]], t], FMul[Lit[273, 1000], FMul[t, FSub[F[1], t]]]]

\* the angle r0 of the first octant carried to the octant of (x, y)
AtanOctant[r0 \in Any, y \in Any, x \in Any] ==
    Sgn[IF y < 0 THEN 0 - 1 ELSE 1]
        * (IF x < 0
           THEN Pi - (IF Abs[y] > Abs[x] THEN Pi \div 2 - r0 ELSE r0)
           ELSE (IF Abs[y] > Abs[x] THEN Pi \div 2 - r0 ELSE r0))

\* f32::atan2(y, x) of finite arguments, by octant reduction
FAtan2[y \in Any, x \in Any] ==
    IF ~IsFin[y] \/ ~IsFin[x] THEN NaN
    ELSE IF x = 0 /\ y = 0 THEN 0
    ELSE AtanOctant[AtanUnit[FDiv[Min2[Abs[x], Abs[y]], Max2[Abs[x], Abs[y]]]], y, x]

\* f32::asin: NaN outside [-1, 1]
FAsin[y \in Any] ==
    IF ~IsFin[y] \/ Abs[y] > Unit THEN NaN
    ELSE FAtan2[y, FSqrt[FSub[F[1], FMul[y, y]]]]

\* ------------------------------------------------------------------------
\* Color, Texture, Material, Intersect
\* ------------------------------------------------------------------------
ColorNew[r \in Any, g \in Any, b \in Any] == [r |-> r, g |-> g, b |-> b]

TextureNew[width \in Any, height \in Any, data \in Any] == [width |-> width, height |-> height, data |-> data]

\* Option<Texture>: <<>> is None, <<t>> is Some(t)
MaterialNew[diffuse \in Any, specular \in Any, albedo \in Any, refractive_index \in Any, texture \in Any] ==
    [diffuse |-> diffuse, specular |-> specular, albedo |-> albedo,
     refractive_index |-> refractive_index,
     has_texture |-> texture # <<>>, texture |-> texture]

\* the texel index get_diffuse_color reads; data is 0-based in the source
TexelIndex[texture \in Any, u \in Any, v \in Any] ==
    AsUsizeMod(FMul[FSub[F[1], v], F[texture.height]], texture.height) * texture.width
        + AsUsizeMod(FMul[u, F[texture.width]], texture.width)

TexelAt[texture \in Any, index \in Any] == texture.data[index + 1]

get_diffuse_color[material \in Any, u \in Any, v \in Any] ==
    IF material.texture # <<>>
    THEN TexelAt[material.texture[1], TexelIndex[material.texture[1], u, v]]
    ELSE material.diffuse

Material_black ==
    MaterialNew[ColorNew[0, 0, 0], 0, <<0, 0, 0, 0>>, F[1], <<>>]

Intersect_new[point \in Any, normal \in Any, distance \in Any, material \in Any, u \in Any, v \in Any] ==
    [point |-> point, normal |-> normal, distance |-> distance,
     is_intersecting |-> TRUE, material |-> material, u |-> u, v |-> v]

Intersect_empty ==
    [point |-> VZero, normal |-> VZero, distance |-> 0,
     is_intersecting |-> FALSE, material |-> Material_black, u |-> 0, v |-> 0]

\* ------------------------------------------------------------------------
\* Sphere
\* ------------------------------------------------------------------------
SphereNew[center \in Any, radius \in Any, material \in Any] ==
    [kind |-> "sphere", center |-> center, radius |-> radius, material |-> material]

\* u and v from the angles theta and phi
SphereUvOfAngles[theta \in Any, phi \in Any] ==
    <<FAdd[Lit[1, 2], FDiv[theta, FMul[F[2], Pi]]], FSub[Lit[1, 2], FDiv[phi, Pi]]>>

SphereUvOfDirection[relative_point \in Any] ==
    SphereUvOfAngles[FAtan2[relative_point[3], relative_point[1]],
                     FAsin[relative_point[2]]]

Sphere_get_uv[self \in Any, point \in Any] ==
    SphereUvOfDirection[VNormalize[VSub[point, self.center]]]

\* the Intersect built at the hit point
SphereHitAt[self \in Any, point \in Any, t \in Any] ==
    Intersect_new[point, VNormalize[VSub[point, self.center]], t, self.material,
                  Sphere_get_uv[self, point][1], Sphere_get_uv[self, point][2]]

\* the branch on the root t
SphereAtRoot[self \in Any, ray_origin \in Any, ray_direction \in Any, t \in Any] ==
    IF FGt[t, 0]
    THEN SphereHitAt[self, VAdd[ray_origin, VScale[ray_direction, t]], t]
    ELSE Intersect_empty

\* a test that lets the tangent ray through
HasRoot(discriminant) == FLe[0, discriminant]

\* `if discriminant > 0.0`
HasTwoRoots(discriminant) == FGt[discriminant, 0]

\* the intersection taken at the larger root of the quadratic
SphereSolveFarRoot(self, ray_origin, ray_direction, a, b, discriminant) ==
    IF FGt[discriminant, 0]
    THEN SphereAtRoot[self, ray_origin, ray_direction,
                      FDiv[FAdd[FNeg[b], FSqrt[discriminant]], FMul[F[2], a]]]
    ELSE Intersect_empty

\* the branch on the discriminant and the smaller root
SphereSolve(self, ray_origin, ray_direction, a, b, discriminant) ==
    IF HasTwoRoots(discriminant)
    THEN SphereAtRoot[self, ray_origin, ray_direction,
                      FDiv[FSub[FNeg[b], FSqrt[discriminant]], FMul[F[2], a]]]
    ELSE Intersect_empty

SphereQuadratic[self \in Any, ray_origin \in Any, ray_direction \in Any, a \in Any, b \in Any, c \in Any] ==
    SphereSolve(self, ray_origin, ray_direction, a, b,
                FSub[FMul[b, b], FMul[FMul[F[4], a], c]])

SphereFromOc[self \in Any, ray_origin \in Any, ray_direction \in Any, oc \in Any] ==
    SphereQuadratic[self, ray_origin, ray_direction,
                    VDot[ray_direction, ray_direction],
                    FMul[F[2], VDot[oc, ray_direction]],
                    FSub[VDot[oc, oc], FMul[self.radius, self.radius]]]

Sphere_ray_intersect[self \in Any, ray_origin \in Any, ray_direction \in Any] ==
    SphereFromOc[self, ray_origin, ray_direction, VSub[ray_origin, self.center]]

\* ------------------------------------------------------------------------
\* Cube
\* ------------------------------------------------------------------------
CubeNew[center \in Any, size \in Any, materials \in Any] ==
    [kind |-> "cube", center |-> center, size |-> size, materials |-> materials]

Cube_map_uv[u \in Any, v \in Any] ==
    <<FFract[FMul[FAdd[u, F[1]], Lit[1, 2]]], FFract[FMul[FAdd[v, F[1]], Lit[1, 2]]]>>

Cube_get_uv_for_face[face_index \in Any, local_pos \in Any] ==
    CASE face_index = 4 -> Cube_map_uv[local_pos[1], FNeg[local_pos[2]]]
      [] face_index = 5 -> Cube_map_uv[FNeg[local_pos[1]], FNeg[local_pos[2]]]
      [] face_index = 0 -> Cube_map_uv[local_pos[3], FNeg[local_pos[2]]]
      [] face_index = 1 -> Cube_map_uv[FNeg[local_pos[3]], FNeg[local_pos[2]]]
      [] face_index = 2 -> Cube_map_uv[local_pos[1], local_pos[3]]
      [] face_index = 3 -> Cube_map_uv[local_pos[1], FNeg[local_pos[3]]]
      [] OTHER -> <<0, 0>>

\* 1e-4, the face-proximity tolerance, as 1/FaceEpsInv
FaceEpsInv == 10000

\* x.abs() < 1e-4
NearFace[x \in Any] == ~IsNaN[x] /\ ~IsInf[x] /\ Abs[x] < Unit /\ Abs[x] * FaceEpsInv < Unit

\* the face index the branch of axis i (0-based) assigns on the min side
\* and on the max side
MinFaceIndex[i \in Any] == CASE i = 0 -> 0 [] i = 1 -> 3 [] i = 2 -> 5 [] OTHER -> 0
MaxFaceIndex[i \in Any] == CASE i = 0 -> 1 [] i = 1 -> 2 [] i = 2 -> 4 [] OTHER -> 1

\* one iteration of `for i in 0..3` over st = (normal, face_index)
CubeFaceStep[st \in Any, i \in Any, punto_encuentro \in Any, min \in Any, max \in Any] ==
    IF NearFace[FSub[punto_encuentro[i + 1], min[i + 1]]]
    THEN [normal |-> [st.normal EXCEPT ![i + 1] = 0 - Unit],
          face_index |-> MinFaceIndex[i]]
    ELSE IF NearFace[FSub[punto_encuentro[i + 1], max[i + 1]]]
    THEN [normal |-> [st.normal EXCEPT ![i + 1] = Unit],
          face_index |-> MaxFaceIndex[i]]
    ELSE st

\* the loop `for i in 0..3`
CubeFace[punto_encuentro \in Any, min \in Any, max \in Any] ==
    CubeFaceStep[
        CubeFaceStep[
            CubeFaceStep[[normal |-> VZero, face_index |-> 0],
                         0, punto_encuentro, min, max],
            1, punto_encuentro, min, max],
        2, punto_encuentro, min, max]

\* t1 and t2 of the slab test from t_min and t_max
CubeSlabOf[min \in Any, max \in Any, t_min \in Any, t_max \in Any] ==
    [min |-> min, max |-> max,
     t1 |-> FMax[FMax[FMin[t_min[1], t_max[1]], FMin[t_min[2], t_max[2]]],
                 FMin[t_min[3], t_max[3]]],
     t2 |-> FMin[FMin[FMax[t_min[1], t_max[1]], FMax[t_min[2], t_max[2]]],
                 FMax[t_min[3], t_max[3]]]]

CubeSlabInv[min \in Any, max \in Any, ray_origin \in Any, inv_dir \in Any] ==
    CubeSlabOf[min, max,
               VComponentMul[VSub[min, ray_origin], inv_dir],
               VComponentMul[VSub[max, ray_origin], inv_dir]]

\* a component of inv_dir computed only for a non-zero direction component
InvDirGuarded(component) == IF component = 0 THEN 0 ELSE FDiv[F[1], component]

\* a component of inv_dir: 1.0 / component, infinite for a zero component
InvDir(component) == FDiv[F[1], component]

CubeSlabHalf[self \in Any, ray_origin \in Any, ray_direction \in Any, mitad \in Any] ==
    CubeSlabInv[VSub[self.center, Vec[mitad, mitad, mitad]],
                VAdd[self.center, Vec[mitad, mitad, mitad]],
                ray_origin,
                Vec[InvDir(ray_direction[1]),
                    InvDir(ray_direction[2]),
                    InvDir(ray_direction[3])]]

\* min, max, t1 and t2 of the slab test
CubeSlab[self \in Any, ray_origin \in Any, ray_direction \in Any] ==
    CubeSlabHalf[self, ray_origin, ray_direction, FDiv[self.size, F[2]]]

CubeHitFace[miss \in Any, t_hit \in Any, punto_encuentro \in Any, face \in Any] ==
    [miss |-> miss, t_hit |-> t_hit, punto_encuentro |-> punto_encuentro,
     normal |-> face.normal, face_index |-> face.face_index]

CubeHitAt[slab \in Any, t_hit \in Any, punto_encuentro \in Any] ==
    CubeHitFace[FGt[slab.t1, slab.t2] \/ FLt[slab.t2, 0], t_hit, punto_encuentro,
                CubeFace[punto_encuentro, slab.min, slab.max]]

CubeHitParam[slab \in Any, ray_origin \in Any, ray_direction \in Any, t_hit \in Any] ==
    CubeHitAt[slab, t_hit, VAdd[ray_origin, VScale[ray_direction, t_hit]]]

CubeHitSlab[slab \in Any, ray_origin \in Any, ray_direction \in Any] ==
    CubeHitParam[slab, ray_origin, ray_direction,
                 IF FLt[slab.t1, 0] THEN slab.t2 ELSE slab.t1]

\* the miss test, the hit parameter, the hit point and the struck face
CubeHit[self \in Any, ray_origin \in Any, ray_direction \in Any] ==
    CubeHitSlab[CubeSlab[self, ray_origin, ray_direction], ray_origin, ray_direction]

CubeIntersectUv[self \in Any, hit \in Any, uv \in Any] ==
    Intersect_new[hit.punto_encuentro, hit.normal, hit.t_hit,
                  self.materials[hit.face_index + 1], uv[1], uv[2]]

\* the Intersect of a computed hit
CubeIntersectOf[self \in Any, hit \in Any] ==
    IF hit.miss
    THEN Intersect_empty
    ELSE CubeIntersectUv[self, hit,
             Cube_get_uv_for_face[hit.face_index, VSub[hit.punto_encuentro, self.center]]]

Cube_ray_intersect[self \in Any, ray_origin \in Any, ray_direction \in Any] ==
    CubeIntersectOf[self, CubeHit[self, ray_origin, ray_direction]]

\* dyn RayIntersect dispatch
ray_intersect[object \in Any, ray_origin \in Any, ray_direction \in Any] ==
    IF object.kind = "sphere"
    THEN Sphere_ray_intersect[object, ray_origin, ray_direction]
    ELSE Cube_ray_intersect[object, ray_origin, ray_direction]

\* ------------------------------------------------------------------------
\* Light and the shading functions of main.rs
\* ------------------------------------------------------------------------
LightNew[position \in Any, color \in Any, intensity \in Any] ==
    [position |-> position, color |-> color, intensity |-> intensity]

\* incident - 2.0 * incident.dot(normal) * normal
reflect[incident \in Any, normal \in Any] ==
    VSub[incident, VScale[normal, FMul[F[2], VDot[incident, normal]]]]

\* a refract without the branch for total internal reflection
NoTotalReflection(k) == FALSE

\* `if k < 0.0`
IsTotalReflection(k) == FLt[k, 0]

RefractFromK[incident \in Any, n_cosi \in Any, eta \in Any, n_normal \in Any, k \in Any] ==
    IF IsTotalReflection(k)
    THEN reflect[incident, n_normal]
    ELSE VAdd[VScale[incident, eta],
              VScale[n_normal, FSub[FMul[eta, n_cosi], FSqrt[k]]]]

RefractWith[incident \in Any, n_cosi \in Any, eta \in Any, n_normal \in Any] ==
    RefractFromK[incident, n_cosi, eta, n_normal,
                 FSub[F[1], FMul[FMul[eta, eta], FSub[F[1], FMul[n_cosi, n_cosi]]]]]

RefractFromCosi[incident \in Any, normal \in Any, eta_t \in Any, cosi \in Any] ==
    IF FLt[cosi, 0]
    THEN RefractWith[incident, FNeg[cosi], FDiv[F[1], eta_t], VNeg[normal]]
    ELSE RefractWith[incident, cosi, eta_t, normal]

\* cosi is -(incident.dot(normal).max(-1.0).min(1.0)): the unary minus
\* applies to the whole method chain
refract[incident \in Any, normal \in Any, eta_t \in Any] ==
    RefractFromCosi[incident, normal, eta_t,
                    FNeg[FMin[FMax[VDot[incident, normal], 0 - F[1]], F[1]]]]

\* 1e-3, the offset of secondary ray origins along the normal
OffsetEps == Lit[1, 1000]

RECURSIVE ShadowScan(_, _, _, _, _, _)

\* the test `distance_to_object < distance_to_light` and the break
\* the ratio of the two distances the other way round
ShadowValueInverted(distance_to_object, distance_to_light) ==
    FSub[F[1], FMin[FDiv[distance_to_light, distance_to_object], F[1]]]

\* 1.0 - (distance_to_object / distance_to_light).min(1.0)
ShadowValue(distance_to_object, distance_to_light) ==
    FSub[F[1], FMin[FDiv[distance_to_object, distance_to_light], F[1]]]

\* a loop without the break: an occluder later in the list overwrites
\* shadow_intensity
ShadowNoBreak(shadow_intensity, rest) == IF rest # 0 THEN rest ELSE shadow_intensity

\* `break`: the objects after the occluder are not visited
ShadowBreak(shadow_intensity, rest) == shadow_intensity

ShadowDistances[objects \in Any, i \in Any, intersect \in Any, light \in Any, shadow_ray_origin \in Any, light_dir \in Any, distance_to_object \in Any, distance_to_light \in Any] ==
    IF FLt[distance_to_object, distance_to_light]
    THEN ShadowBreak(ShadowValue(distance_to_object, distance_to_light),
                     ShadowScan(objects, i + 1, intersect, light, shadow_ray_origin, light_dir))
    ELSE ShadowScan(objects, i + 1, intersect, light, shadow_ray_origin, light_dir)

ShadowStep[objects \in Any, i \in Any, intersect \in Any, light \in Any, shadow_ray_origin \in Any, light_dir \in Any, shadow_intersect \in Any] ==
    IF shadow_intersect.is_intersecting
    THEN ShadowDistances[objects, i, intersect, light, shadow_ray_origin, light_dir,
                         VMagnitude[VSub[shadow_intersect.point, intersect.point]],
                         VMagnitude[VSub[light.position, intersect.point]]]
    ELSE ShadowScan(objects, i + 1, intersect, light, shadow_ray_origin, light_dir)

\* `for object in objects` from the object at position i on; 0 when the
\* loop ends without a break
ShadowScan(objects, i, intersect, light, shadow_ray_origin, light_dir) ==
    IF i > Len(objects)
    THEN 0
    ELSE ShadowStep[objects, i, intersect, light, shadow_ray_origin, light_dir,
                    ray_intersect[objects[i], shadow_ray_origin, light_dir]]

cast_shadow[intersect \in Any, light \in Any, objects \in Any] ==
    ShadowScan(objects, 1, intersect, light,
               VAdd[intersect.point, VScale[intersect.normal, OffsetEps]],
               VNormalize[VSub[light.position, intersect.point]])

RECURSIVE ClosestScan(_, _, _, _, _, _)

\* a scan that also replaces the hit kept by one at the same distance
CloserOrEqual(distance, closest_distance) == FLe[distance, closest_distance]

\* `intersection.distance < closest_distance`
Closer(distance, closest_distance) == FLt[distance, closest_distance]

ClosestStep[objects \in Any, i \in Any, ray_origin \in Any, ray_direction \in Any, closest_intersection \in Any, closest_distance \in Any, intersection \in Any] ==
    IF intersection.is_intersecting /\ Closer(intersection.distance, closest_distance)
    THEN ClosestScan(objects, i + 1, ray_origin, ray_direction,
                     intersection, intersection.distance)
    ELSE ClosestScan(objects, i + 1, ray_origin, ray_direction,
                     closest_intersection, closest_distance)

\* `for object in objects` of cast_ray from the object at position i on
ClosestScan(objects, i, ray_origin, ray_direction, closest_intersection, closest_distance) ==
    IF i > Len(objects)
    THEN closest_intersection
    ELSE ClosestStep[objects, i, ray_origin, ray_direction, closest_intersection,
                     closest_distance,
                     ray_intersect[objects[i], ray_origin, ray_direction]]

\* closest_intersection after the loop
ClosestIntersection[objects \in Any, ray_origin \in Any, ray_direction \in Any] ==
    ClosestScan(objects, 1, ray_origin, ray_direction, Intersect_empty, PInf)

\* black in the place of the background colour
BackgroundBlack == ColorNew[0, 0, 0]

\* the background colour
Background == ColorNew[4, 12, 36]

\* the depth beyond which cast_ray returns the background
RecursionLimit == 1

\* ambient_light_intensity
AmbientIntensity == Lit[3, 10]

\* (c as f32 * k).min(255.0) as u8
ScaleChannel[c \in Any, k \in Any] == AsU8[FMin[FMul[F[c], k], F[255]]]

ScaleColor[color \in Any, k \in Any] ==
    ColorNew[ScaleChannel[color.r, k], ScaleChannel[color.g, k], ScaleChannel[color.b, k]]

\* (c as f32 * k1 * k2 * k3).min(255.0) as u8
Scale3Channel[c \in Any, k1 \in Any, k2 \in Any, k3 \in Any] == AsU8[FMin[FMul[FMul[FMul[F[c], k1], k2], k3], F[255]]]

Scale3Color[color \in Any, k1 \in Any, k2 \in Any, k3 \in Any] ==
    ColorNew[Scale3Channel[color.r, k1, k2, k3], Scale3Channel[color.g, k1, k2, k3],
             Scale3Channel[color.b, k1, k2, k3]]

\* the sum without the saturation: `as u8` of a u32 keeps the low 8 bits
WrapAdd3(a, b, c) == (a + b + c) % 256

\* (a as u32 + b as u32 + c as u32).min(255) as u8
SatAdd3(a, b, c) == Min2[a + b + c, 255]

SumColor3[x \in Any, y \in Any, z \in Any] ==
    ColorNew[SatAdd3(x.r, y.r, z.r), SatAdd3(x.g, y.g, z.g), SatAdd3(x.b, y.b, z.b)]

\* (acc as u32 + c as u32).min(255) as u8
SatAdd2[a \in Any, b \in Any] == Min2[a + b, 255]

SumColor2[x \in Any, y \in Any] == ColorNew[SatAdd2[x.r, y.r], SatAdd2[x.g, y.g], SatAdd2[x.b, y.b]]

\* the value of the final blend of one channel before `.min(255.0) as u8`
BlendValue[fc \in Any, rc \in Any, tc \in Any, reflectivity \in Any, transparency \in Any] ==
    FAdd[FAdd[FMul[F[fc], FSub[FSub[F[1], reflectivity], transparency]],
              FMul[F[rc], reflectivity]],
         FMul[F[tc], transparency]]

BlendChannel[fc \in Any, rc \in Any, tc \in Any, reflectivity \in Any, transparency \in Any] ==
    AsU8[FMin[BlendValue[fc, rc, tc, reflectivity, transparency], F[255]]]

BlendColor[final_color \in Any, reflect_color \in Any, refract_color \in Any, reflectivity \in Any, transparency \in Any] ==
    ColorNew[BlendChannel[final_color.r, reflect_color.r, refract_color.r,
                          reflectivity, transparency],
             BlendChannel[final_color.g, reflect_color.g, refract_color.g,
                          reflectivity, transparency],
             BlendChannel[final_color.b, reflect_color.b, refract_color.b,
                          reflectivity, transparency]]

\* diffuse_intensity
DiffuseIntensity[closest_intersection \in Any, light \in Any] ==
    FMin[FMax[VDot[closest_intersection.normal,
                   VNormalize[VSub[light.position, closest_intersection.point]]],
              0],
         F[1]]

\* reflect_dir
ReflectDir[ray_direction \in Any, closest_intersection \in Any] ==
    VNormalize[reflect[VNeg[ray_direction], closest_intersection.normal]]

\* specular_intensity
SpecularIntensity[ray_origin \in Any, ray_direction \in Any, closest_intersection \in Any] ==
    FPowf[FMax[VDot[VNormalize[VSub[ray_origin, closest_intersection.point]],
                    ReflectDir[ray_direction, closest_intersection]],
               0],
          closest_intersection.material.specular]

\* the locals of cast_ray after the direct lighting, from diffuse_color,
\* diffuse_intensity, shadow_intensity and specular_intensity
ShadeLocals[closest_intersection \in Any, light \in Any, diffuse_color \in Any, diffuse_intensity \in Any, shadow_intensity \in Any, specular_intensity \in Any] ==
    [ambient_light |-> ScaleColor[diffuse_color, AmbientIntensity],
     diffuse |-> Scale3Color[diffuse_color, closest_intersection.material.albedo[1],
                             diffuse_intensity, light.intensity],
     shadow_intensity |-> shadow_intensity,
     specular |-> Scale3Color[light.color, closest_intersection.material.albedo[2],
                              specular_intensity,
                              FMul[light.intensity, FSub[F[1], shadow_intensity]]]]

\* ambient_light, diffuse and specular of the hit
Shade[ray_origin \in Any, ray_direction \in Any, objects \in Any, light \in Any, closest_intersection \in Any] ==
    ShadeLocals[closest_intersection, light,
                get_diffuse_color[closest_intersection.material,
                                  closest_intersection.u, closest_intersection.v],
                DiffuseIntensity[closest_intersection, light],
                cast_shadow[closest_intersection, light, objects],
                SpecularIntensity[ray_origin, ray_direction, closest_intersection]]

\* origin and direction of the reflected ray
ReflectRay[ray_direction \in Any, closest_intersection \in Any] ==
    [origin |-> VAdd[closest_intersection.point,
                     VScale[closest_intersection.normal, OffsetEps]],
     direction |-> ReflectDir[ray_direction, closest_intersection]]

\* origin and direction of the refracted ray
RefractRay[ray_direction \in Any, closest_intersection \in Any] ==
    [origin |-> VAdd[closest_intersection.point,
                     VScale[closest_intersection.normal, OffsetEps]],
     direction |-> VNormalize[refract[ray_direction, closest_intersection.normal,
                                      closest_intersection.material.refractive_index]]]

\* (r << 16) | (g << 8) | b
PackPixel[color \in Any] == color.r * 65536 + color.g * 256 + color.b

Black == ColorNew[0, 0, 0]

RECURSIVE cast_ray(_, _, _, _, _)

\* reflect_color: the reflected ray's colour scaled by reflectivity, black
\* when the material does not reflect
ReflectColor[ray_direction \in Any, objects \in Any, light \in Any, depth \in Any, closest_intersection \in Any, reflect_ray \in Any] ==
    IF FGt[closest_intersection.material.albedo[3], 0]
    THEN ScaleColor[cast_ray(reflect_ray.origin, reflect_ray.direction, objects, light,
                             depth + 1),
                    closest_intersection.material.albedo[3]]
    ELSE Black

\* refract_color: the refracted ray's colour scaled by transparency, black
\* when the material is opaque
RefractColor[ray_direction \in Any, objects \in Any, light \in Any, depth \in Any, closest_intersection \in Any, refract_ray \in Any] ==
    IF FGt[closest_intersection.material.albedo[4], 0]
    THEN ScaleColor[cast_ray(refract_ray.origin, refract_ray.direction, objects, light,
                             depth + 1),
                    closest_intersection.material.albedo[4]]
    ELSE Black

CastRayHit[ray_direction \in Any, objects \in Any, light \in Any, depth \in Any, closest_intersection \in Any, locals \in Any] ==
    BlendColor[SumColor3[locals.ambient_light, locals.diffuse, locals.specular],
               ReflectColor[ray_direction, objects, light, depth, closest_intersection,
                            ReflectRay[ray_direction, closest_intersection]],
               RefractColor[ray_direction, objects, light, depth, closest_intersection,
                            RefractRay[ray_direction, closest_intersection]],
               closest_intersection.material.albedo[3],
               closest_intersection.material.albedo[4]]

CastRayClosest[ray_origin \in Any, ray_direction \in Any, objects \in Any, light \in Any, depth \in Any, closest_intersection \in Any] ==
    IF ~closest_intersection.is_intersecting
    THEN Background
    ELSE CastRayHit[ray_direction, objects, light, depth, closest_intersection,
                    Shade[ray_origin, ray_direction, objects, light, closest_intersection]]

\* cast_ray as a function of its arguments
cast_ray(ray_origin, ray_direction, objects, light, depth) ==
    IF depth > RecursionLimit
    THEN Background
    ELSE CastRayClosest[ray_origin, ray_direction, objects, light, depth,
                        ClosestIntersection[objects, ray_origin, ray_direction]]

\* ------------------------------------------------------------------------
\* Camera::basis_change and the pixel closure of render as functions
\* ------------------------------------------------------------------------
CameraNew[eye \in Any, center \in Any, up \in Any] == [eye |-> eye, center |-> center, up |-> up]

\* vector.x * right + vector.y * up - vector.z * forward, normalized
BasisRotated[vector \in Any, forward \in Any, right \in Any, up \in Any] ==
    VNormalize[VSub[VAdd[VScale[right, vector[1]], VScale[up, vector[2]]],
                    VScale[forward, vector[3]]]]

BasisWithRight[vector \in Any, forward \in Any, right \in Any] ==
    BasisRotated[vector, forward, right, VNormalize[VCross[right, forward]]]

BasisWithForward[self \in Any, vector \in Any, forward \in Any] ==
    BasisWithRight[vector, forward, VNormalize[VCross[forward, self.up]]]

basis_change[self \in Any, vector \in Any] ==
    BasisWithForward[self, vector, VNormalize[VSub[self.center, self.eye]]]

\* f32 % f32: the remainder of the truncated division, with the sign of a
FRem[a \in Any, b \in Any] ==
    IF ~IsFin[a] \/ ~IsFin[b] \/ b = 0 THEN NaN ELSE Sgn[a] * (Abs[a] % Abs[b])

\* sin on [-pi/2, pi/2]: x - x^3/6 + x^5/120 - x^7/5040, in millionths
SinSeries[x \in Any, x2 \in Any] ==
    (x * (1000000 - (x2 * (166667 - (x2 * (8333 - (x2 * 198) \div 1000)) \div 1000)) \div 1000)) \div 1000000

\* the angle of (-pi, pi] folded onto [-pi/2, pi/2] with the same sine
SinFold[x \in Any] ==
    IF x > Pi \div 2 THEN Pi - x ELSE IF x < 0 - (Pi \div 2) THEN 0 - Pi - x ELSE x

\* the angle brought to (-pi, pi] by whole turns
SinTurn[x \in Any] ==
    IF x > Pi THEN x - 2 * Pi ELSE IF x < 0 - Pi THEN x + 2 * Pi ELSE x

SinFolded[x \in Any] == SinSeries[x, (x * x + 500) \div 1000]

\* f32::sin and f32::cos of a finite angle
FSin[a \in Any] ==
    IF ~IsFin[a] THEN NaN ELSE SinFolded[SinFold[SinTurn[FRem[a, 2 * Pi]]]]
FCos[a \in Any] == FSin[FAdd[a, Pi \div 2]]

\* a move that leaves the look-at point where it is
MovedCenterFixed(center, offset) == center

\* self.center += offset
MovedCenter(center, offset) == VAdd[center, offset]

\* self.eye and self.center moved by the same offset
Translate[self \in Any, offset \in Any] ==
    [self EXCEPT !.eye = VAdd[@, offset], !.center = MovedCenter(@, offset)]

MoveAlong[self \in Any, forward \in Any, rightward \in Any, forward_direction \in Any, right_direction \in Any] ==
    Translate[Translate[self, VScale[forward_direction, forward]],
              VScale[right_direction, rightward]]

MoveFrom[self \in Any, forward \in Any, rightward \in Any, forward_direction \in Any] ==
    MoveAlong[self, forward, rightward, forward_direction,
              VNormalize[VCross[forward_direction, self.up]]]

\* Camera::move_camera
move_camera[self \in Any, forward \in Any, rightward \in Any] ==
    MoveFrom[self, forward, rightward, VNormalize[VSub[self.center, self.eye]]]

\* Camera::move_vertical
move_vertical[self \in Any, vertical \in Any] ==
    Translate[self, VScale[self.up, vertical]]

PitchLimit == FSub[FDiv[Pi, F[2]], Lit[1, 10]]

\* the eye on the sphere of the given radius around center
OrbitEye[self \in Any, radius \in Any, new_yaw \in Any, new_pitch \in Any] ==
    [self EXCEPT !.eye =
        VAdd[self.center,
             Vec[FMul[FMul[radius, FCos[new_yaw]], FCos[new_pitch]],
                 FMul[FNeg[radius], FSin[new_pitch]],
                 FMul[FMul[radius, FSin[new_yaw]], FCos[new_pitch]]]]]

\* current_yaw and current_pitch of the radius vector
CurrentYaw[radius_vector \in Any] == FAtan2[radius_vector[3], radius_vector[1]]
CurrentPitch[radius_vector \in Any] ==
    FAtan2[FNeg[radius_vector[2]],
           FSqrt[FAdd[FMul[radius_vector[1], radius_vector[1]],
                      FMul[radius_vector[3], radius_vector[3]]]]]

\* a yaw that turns the same way whatever the sign of delta_yaw
NewYawUnsigned(current_yaw, delta_yaw) ==
    FRem[FAdd[current_yaw, FAbs[delta_yaw]], 2 * Pi]

\* new_yaw
NewYaw(current_yaw, delta_yaw) == FRem[FAdd[current_yaw, delta_yaw], 2 * Pi]

OrbitFrom[self \in Any, radius_vector \in Any, delta_yaw \in Any, delta_pitch \in Any] ==
    OrbitEye[self, VMagnitude[radius_vector],
             NewYaw(CurrentYaw[radius_vector], delta_yaw),
             FClamp[FAdd[CurrentPitch[radius_vector], delta_pitch],
                    FNeg[PitchLimit], PitchLimit]]

\* Camera::orbit
orbit[self \in Any, delta_yaw \in Any, delta_pitch \in Any] ==
    OrbitFrom[self, VSub[self.eye, self.center], delta_yaw, delta_pitch]

\* chunk_size
ChunkSize == 8

\* screen_y of the row base_y + y
ScreenY[row \in Any, height \in Any] ==
    FNeg[FSub[FDiv[FMul[F[2], F[row]], F[height]], F[1]]]

\* screen_x after the aspect correction
ScreenX[x \in Any, width \in Any, height \in Any] ==
    FMul[FSub[FDiv[FMul[F[2], F[x]], F[width]], F[1]], FDiv[F[width], F[height]]]

\* transformed_direction
PixelDirection[x \in Any, row \in Any, width \in Any, height \in Any, camera \in Any] ==
    basis_change[camera,
                 VNormalize[Vec[ScreenX[x, width, height], ScreenY[row, height], 0 - F[1]]]]

\* lights.iter().fold(...) from the light at position i on
RECURSIVE FoldLights(_, _, _, _, _, _)
FoldLights(lights, i, acc, eye, direction, objects) ==
    IF i > Len(lights)
    THEN acc
    ELSE FoldLights(lights, i + 1,
                    SumColor2[acc, cast_ray(eye, direction, objects, lights[i], 0)],
                    eye, direction, objects)

\* the value the closure stores in the slot of pixel x of the row
RenderPixel[x \in Any, row \in Any, width \in Any, height \in Any, objects \in Any, camera \in Any, lights \in Any] ==
    PackPixel[FoldLights(lights, 1, Black, camera.eye,
                         PixelDirection[x, row, width, height, camera], objects)]

\* what render leaves in a slice of the given length: slot i holds the pixel
\* of column i % width of row i / width, whatever the order of the chunks
render[framebuffer \in Any, width \in Any, height \in Any, objects \in Any, camera \in Any, lights \in Any] ==
    [i \in 1..Len(framebuffer) |->
        RenderPixel[(i - 1) % width, (i - 1) \div width, width, height,
                    objects, camera, lights]]

\* src_index of the destination slot dst_index (both from 0)
\* a source coordinate rounded up instead of down
SrcCoordCeil(dst, low, high) == (dst * low + high - 1) \div high

\* `y * low_height / high_height` and `x * low_width / high_width`
SrcCoord(dst, low, high) == (dst * low) \div high

\* src_index for the destination index dst_index = y * high_width + x
UpscaleSource[dst_index \in Any, low_width \in Any, low_height \in Any, high_width \in Any, high_height \in Any] ==
    SrcCoord(dst_index \div high_width, low_height, high_height) * low_width
        + SrcCoord(dst_index % high_width, low_width, high_width)

upscale_framebuffer[low_res_buffer \in Any, low_width \in Any, low_height \in Any, high_width \in Any, high_height \in Any] ==
    [i \in 1..(high_width * high_height) |->
        low_res_buffer[UpscaleSource[i - 1, low_width, low_height,
                                     high_width, high_height] + 1]]

\* one arrow key of the loop: camera.orbit and camera_moved = true
KeyOrbit[st \in Any, pressed \in Any, delta_yaw \in Any, delta_pitch \in Any] ==
    IF pressed
    THEN [camera |-> orbit[st.camera, delta_yaw, delta_pitch],
          camera_moved |-> TRUE,
          applied |-> Append(st.applied, "orbit")]
    ELSE st

\* one of forward, rightward, vertical: 0.0, plus 0.1 and minus 0.1 by two keys
KeyAxis[first \in Any, first_step \in Any, second \in Any, second_step \in Any] ==
    FAdd[FAdd[0, IF first THEN first_step ELSE 0], IF second THEN second_step ELSE 0]

KeyMove[st \in Any, forward \in Any, rightward \in Any] ==
    IF FNe[forward, 0] \/ FNe[rightward, 0]
    THEN [camera |-> move_camera[st.camera, forward, rightward],
          camera_moved |-> TRUE,
          applied |-> Append(st.applied, "move_camera")]
    ELSE st

KeyVertical[st \in Any, vertical \in Any] ==
    IF FNe[vertical, 0]
    THEN [camera |-> move_vertical[st.camera, vertical],
          camera_moved |-> TRUE,
          applied |-> Append(st.applied, "move_vertical")]
    ELSE st

KeyArrows[st \in Any, keys \in Any] ==
    KeyOrbit[KeyOrbit[KeyOrbit[KeyOrbit[st,
        "Left" \in keys, Lit[5, 100], 0],
        "Right" \in keys, 0 - Lit[5, 100], 0],
        "Up" \in keys, 0, Lit[5, 100]],
        "Down" \in keys, 0, 0 - Lit[5, 100]]

\* the key handling of one iteration of main's loop, from camera_moved = false
HandleKeys[cam \in Any, keys \in Any] ==
    KeyVertical[
        KeyMove[KeyArrows[[camera |-> cam, camera_moved |-> FALSE, applied |-> <<>>], keys],
                KeyAxis["W" \in keys, Lit[1, 10], "S" \in keys, 0 - Lit[1, 10]],
                KeyAxis["A" \in keys, 0 - Lit[1, 10], "D" \in keys, Lit[1, 10]]],
        KeyAxis["Q" \in keys, Lit[1, 10], "E" \in keys, 0 - Lit[1, 10]]]

\* ------------------------------------------------------------------------
\* State
\* ------------------------------------------------------------------------
VARIABLES
    call,        \* a call of one of the pure functions: its name and arguments
    ret,         \* its outcome: [done, panic, value, aux]
    objects,     \* the scene: the primitives in list order
    lights,      \* the lights in list order
    camera,      \* the camera: eye, center and up
    primary,     \* the primary ray of the pixel: camera.eye and the direction
    stack,       \* the cast_ray calls in progress, the innermost last
    rv,          \* the colour returned by the cast_ray call that just ended
    acc,         \* the accumulator of the fold over the lights
    light_index, \* the position of the fold in lights
    pixel,       \* the packed value stored in the framebuffer slot
    calls,       \* cast_ray invocations since the fold's last call
    scans,       \* of these, the ones that tested the geometry
    framebuffer, \* the slice render writes
    render_args, \* the width and height arguments of the render call
    pending,     \* the chunks of the framebuffer no worker has taken yet
    workers,     \* per worker: the chunk it processes and its position in it
    writes,      \* per framebuffer slot: the writes made to it, in order
    returned,    \* render has returned
    framebuffer_high, \* main's full-resolution buffer
    framebuffer_low,  \* main's fast-path buffer
    window,      \* the buffer the window displays
    should_render, \* main's flag of the same name
    camera_moved,  \* main's flag of the same name
    loop_pc,     \* the position in main's loop: poll, display or exited
    applied,     \* the camera methods called in the current iteration
    frames,      \* per finished iteration: the methods called and the branch taken
    history      \* the Camera methods called so far: arguments, camera before and after

fnVars == <<call, ret>>
sceneVars == <<objects, lights, camera>>
pixVars == <<primary, stack, rv, acc, light_index, pixel, calls, scans>>
renVars == <<framebuffer, render_args, pending, workers, writes, returned>>
loopVars == <<framebuffer_high, framebuffer_low, window, should_render,
              camera_moved, loop_pc, applied, frames>>
camVars == <<history>>
vars == <<fnVars, sceneVars, pixVars, renVars, loopVars, camVars>>

\* the camera main builds
MainCamera == CameraNew[Vec[0, 0, F[5]], Vec[0, 0, 0 - F[1]], Vec[0, F[1], 0]]

\* scene, pixel closure and render while they are not in use
IdleScene ==
    /\ objects = <<>>
    /\ lights = <<>>
    /\ camera = MainCamera

IdlePixel ==
    /\ primary = [eye |-> VZero, direction |-> VZero]
    /\ stack = <<>>
    /\ rv = <<>>
    /\ acc = Black
    /\ light_index = 1
    /\ pixel = <<>>
    /\ calls = 0
    /\ scans = 0

IdleRender ==
    /\ framebuffer = <<>>
    /\ render_args = [width |-> 0, height |-> 0]
    /\ pending = {}
    /\ workers = <<>>
    /\ writes = <<>>
    /\ returned = FALSE

IdleLoop ==
    /\ framebuffer_high = <<>>
    /\ framebuffer_low = <<>>
    /\ window = <<>>
    /\ should_render = TRUE
    /\ camera_moved = FALSE
    /\ loop_pc = "exited"
    /\ applied = <<>>
    /\ frames = <<>>
    /\ history = <<>>

\* ------------------------------------------------------------------------
\* Inputs of the pure functions
\* ------------------------------------------------------------------------
GridMax == 2
FarCoord == 5
MaxTexDim == 3

\* albedo and refractive index of every material main builds
MainAlbedo == <<Lit[6, 10], Lit[3, 10], Lit[1, 10], Lit[1, 10]>>
MainRefractiveIndex == Lit[15, 10]

\* an untextured material recognisable by its colour
FlatMaterial[k \in Any] ==
    MaterialNew[ColorNew[40 * k + 15, 255 - 40 * k, 100], F[2], MainAlbedo,
                MainRefractiveIndex, <<>>]

\* six different materials, position k holding the material of index k - 1
FaceMaterials == [k \in 1..6 |-> FlatMaterial[k - 1]]

Coords == {k * (Unit \div 2) : k \in (0 - 2 * GridMax)..(2 * GridMax)}
LatticePoints == {Vec[x, y, z] : x \in Coords, y \in Coords, z \in Coords}
AxisPoints ==
    {Vec[F[FarCoord], 0, 0], Vec[0, F[FarCoord], 0], Vec[0, 0, F[FarCoord]],
     Vec[0 - F[FarCoord], 0, 0], Vec[0, 0 - F[FarCoord], 0], Vec[0, 0, 0 - F[FarCoord]]}
IntPoints == {p \in LatticePoints : \A i \in 1..3 : p[i] % Unit = 0}
RayOrigins == IntPoints \cup AxisPoints
RayDirections == {Vec[F[a], F[b], F[c]] : a \in -1..1, b \in -1..1, c \in -1..1}

ProbeCubes == {CubeNew[VZero, s, FaceMaterials] : s \in {F[1], F[2], F[4]}}
ProbeSpheres ==
    {SphereNew[VZero, r, FlatMaterial[0]] : r \in {Lit[1, 2], F[1], Lit[3, 2], F[2], F[3], F[4]}}
\* every radius k/10 strictly between 0 and FarCoord
DecimalSpheres ==
    {SphereNew[VZero, k * (Unit \div 10), FlatMaterial[0]] : k \in 1..(10 * FarCoord - 1)}

\* a width x height texture whose texel (x, y) is the colour (x, y, 0);
\* load_texture pushes exactly width * height texels, row after row
ProbeTexture[width \in Any, height \in Any] ==
    TextureNew[width, height,
               [i \in 1..(width * height) |->
                    ColorNew[(i - 1) % width, (i - 1) \div width, 0]]]
ProbeTextures == {ProbeTexture[w, h] : w \in 1..MaxTexDim, h \in 1..MaxTexDim}
UVSamples ==
    {NaN, PInf, NInf, 0 - 1, 1, Unit - 1, Unit + 1}
        \cup {k * (Unit \div 4) : k \in -6..6}

CubeCalls ==
    {[fn |-> "Cube::ray_intersect", self |-> c, ray_origin |-> o, ray_direction |-> d] :
        c \in ProbeCubes, o \in RayOrigins, d \in RayDirections}
\* coordinates across a face of the cube of size 2: the centre, the half
\* steps and the last step before each edge
FaceCoords == {c \in Coords : Abs[c] < Unit} \cup {1 - Unit, Unit - 1}
\* rays along -X from in front of the +X face of the cube of size 2
FaceCalls ==
    {[fn |-> "Cube::ray_intersect", self |-> CubeNew[VZero, F[2], FaceMaterials],
      ray_origin |-> Vec[x0, y, z], ray_direction |-> Vec[0 - F[1], 0, 0]] :
        x0 \in {c \in Coords : c > Unit} \cup {Unit + 1, F[FarCoord]},
        y \in FaceCoords, z \in FaceCoords}
SphereCalls ==
    {[fn |-> "Sphere::ray_intersect", self |-> s, ray_origin |-> o, ray_direction |-> d] :
        s \in ProbeSpheres, o \in RayOrigins, d \in RayDirections}
        \cup
    {[fn |-> "Sphere::ray_intersect", self |-> s, ray_origin |-> Vec[0, 0, F[FarCoord]],
      ray_direction |-> Vec[0, 0, 0 - F[1]]] : s \in DecimalSpheres}
TexelCalls ==
    {[fn |-> "Material::get_diffuse_color",
      self |-> MaterialNew[ColorNew[1, 2, 3], F[2], MainAlbedo, MainRefractiveIndex, <<t>>],
      u |-> u, v |-> v] : t \in ProbeTextures, u \in UVSamples, v \in UVSamples}
\* refract: unit incident directions on either side of the surface and
\* along it, two normals, indices of refraction above, at and below 1
RefractInputs ==
    {[fn |-> "refract", incident |-> i, normal |-> n, eta_t |-> e] :
        i \in {Vec[0, 0 - Lit[6, 10], 0 - Lit[8, 10]], Vec[0, Lit[6, 10], Lit[8, 10]],
                Vec[Lit[6, 10], 0, 0 - Lit[8, 10]], Vec[Lit[8, 10], 0, Lit[6, 10]],
                Vec[0, 0, 0 - F[1]], Vec[0, 0, F[1]], Vec[F[1], 0, 0]},
        n \in {Vec[0, 0, F[1]], Vec[0, F[1], 0]},
        e \in {Lit[3, 2], F[1], Lit[1, 2], F[2]}}

MaxLow == 3
MaxHigh == 4

\* a buffer of n pixels, each holding its own position
NumberedBuffer[n \in Any] == [i \in 1..n |-> i]

\* upscale_framebuffer from every low size to every high size, on a buffer
\* of exactly low_width * low_height pixels or of one more
UpscaleCalls ==
    {[fn |-> "upscale_framebuffer", low_res_buffer |-> NumberedBuffer[lw * lh + extra],
      low_width |-> lw, low_height |-> lh, high_width |-> hw, high_height |-> hh] :
        lw \in 1..MaxLow, lh \in 1..MaxLow, hw \in 1..MaxHigh, hh \in 1..MaxHigh,
        extra \in {0, 1}}

MaxOccluders == 2

\* the shaded point of a shadow query: the origin, on a surface facing +Y or +Z
ShadowPoints ==
    {Intersect_new[VZero, n, F[FarCoord], FlatMaterial[0], 0, 0] :
        n \in {Vec[0, F[1], 0], Vec[0, 0, F[1]]}}
\* light positions: above the point, diagonal, on a 3-4-5 direction, below
\* the surface and at the point itself
ShadowLights ==
    {LightNew[q, ColorNew[255, 255, 255], Lit[8, 10]] :
        q \in {Vec[0, F[4], 0], Vec[0, F[2], 0], Vec[F[4], F[4], 0], Vec[F[3], F[4], 0],
               Vec[0, 0 - F[4], 0], VZero}}
OccluderPool ==
    {CubeNew[c, F[1], FaceMaterials] :
        c \in {Vec[0, F[2], 0], Vec[0, F[6], 0], Vec[F[2], F[2], 0], Vec[F[3], 0, 0],
               Vec[Lit[3, 2], F[2], 0]}}
      \cup {CubeNew[Vec[0, 0 - F[1], 0], F[2], FaceMaterials],
            CubeNew[Vec[0, F[4], 0], F[2], FaceMaterials]}
      \cup {SphereNew[c, Lit[1, 2], FlatMaterial[0]] : c \in {Vec[0, F[3], 0], Vec[F[1], F[1], 0]}}
\* the object lists of up to MaxOccluders objects of the pool, in every order
RECURSIVE ObjectLists(_)
ObjectLists(n) ==
    IF n = 0 THEN {<<>>}
    ELSE ObjectLists(n - 1)
           \cup {Append(l, o) : l \in {m \in ObjectLists(n - 1) : Len(m) = n - 1},
                                o \in OccluderPool}
ShadowCalls ==
    {[fn |-> "cast_shadow", intersect |-> p, light |-> l, objects |-> os] :
        p \in ShadowPoints, l \in ShadowLights, os \in ObjectLists(MaxOccluders)}

NotCalled == [done |-> FALSE, panic |-> FALSE, value |-> <<>>, aux |-> 0]
Returned(value, aux) == [done |-> TRUE, panic |-> FALSE, value |-> value, aux |-> aux]
Panicked(aux) == [done |-> TRUE, panic |-> TRUE, value |-> <<>>, aux |-> aux]

InitFn ==
    /\ call \in CubeCalls \cup FaceCalls \cup SphereCalls \cup TexelCalls \cup ShadowCalls
                 \cup RefractInputs \cup UpscaleCalls
    /\ ret = NotCalled
    /\ IdleScene
    /\ IdlePixel
    /\ IdleRender
    /\ IdleLoop

\* Sphere::ray_intersect
CallSphereIntersect ==
    /\ call.fn = "Sphere::ray_intersect"
    /\ ~ret.done
    /\ ret' = Returned(Sphere_ray_intersect[call.self, call.ray_origin, call.ray_direction], 0)
    /\ UNCHANGED <<camVars, call, sceneVars, loopVars, pixVars, renVars>>

\* the outcome of Cube::ray_intersect for a computed hit: materials[face_index]
\* panics when the index is not one of the six positions; aux is face_index
CubeOutcome[self \in Any, hit \in Any] ==
    IF ~hit.miss /\ hit.face_index + 1 \notin DOMAIN self.materials
    THEN Panicked(hit.face_index)
    ELSE Returned(CubeIntersectOf[self, hit], hit.face_index)

\* Cube::ray_intersect
CallCubeIntersect ==
    /\ call.fn = "Cube::ray_intersect"
    /\ ~ret.done
    /\ ret' = CubeOutcome[call.self, CubeHit[call.self, call.ray_origin, call.ray_direction]]
    /\ UNCHANGED <<camVars, call, sceneVars, loopVars, pixVars, renVars>>

\* the outcome of get_diffuse_color on a texture: texture.data[index] panics
\* when index is not below the length of data; aux is the index
TexelOutcome[texture \in Any, index \in Any] ==
    IF index >= Len(texture.data)
    THEN Panicked(index)
    ELSE Returned(TexelAt[texture, index], index)

\* Material::get_diffuse_color of a textured material
CallGetDiffuseColor ==
    /\ call.fn = "Material::get_diffuse_color"
    /\ ~ret.done
    /\ ret' = TexelOutcome[call.self.texture[1],
                           TexelIndex[call.self.texture[1], call.u, call.v]]
    /\ UNCHANGED <<camVars, call, sceneVars, loopVars, pixVars, renVars>>

\* cast_shadow
CallCastShadow ==
    /\ call.fn = "cast_shadow"
    /\ ~ret.done
    /\ ret' = Returned(cast_shadow[call.intersect, call.light, call.objects], 0)
    /\ UNCHANGED <<camVars, call, sceneVars, loopVars, pixVars, renVars>>

\* refract
CallRefract ==
    /\ call.fn = "refract"
    /\ ~ret.done
    /\ ret' = Returned(refract[call.incident, call.normal, call.eta_t], 0)
    /\ UNCHANGED <<camVars, call, sceneVars, loopVars, pixVars, renVars>>

\* the source indices an upscale_framebuffer call reads
UpscaleReads[low_width \in Any, low_height \in Any, high_width \in Any, high_height \in Any] ==
    {UpscaleSource[dst_index, low_width, low_height, high_width, high_height] :
        dst_index \in 0..(high_width * high_height - 1)}

\* the outcome of upscale_framebuffer: low_res_buffer[src_index] panics when
\* src_index is not below the length of the buffer; aux is the greatest
\* index read
UpscaleOutcome[low_res_buffer \in Any, low_width \in Any, low_height \in Any, high_width \in Any, high_height \in Any, reads \in Any] ==
    IF \E src_index \in reads : src_index >= Len(low_res_buffer)
    THEN Panicked(CHOOSE src_index \in reads : \A other \in reads : other <= src_index)
    ELSE Returned(upscale_framebuffer[low_res_buffer, low_width, low_height,
                                      high_width, high_height],
                  CHOOSE src_index \in reads : \A other \in reads : other <= src_index)

\* upscale_framebuffer
CallUpscale ==
    /\ call.fn = "upscale_framebuffer"
    /\ ~ret.done
    /\ ret' = UpscaleOutcome[call.low_res_buffer, call.low_width, call.low_height,
                             call.high_width, call.high_height,
                             UpscaleReads[call.low_width, call.low_height,
                                          call.high_width, call.high_height]]
    /\ UNCHANGED <<camVars, call, sceneVars, loopVars, pixVars, renVars>>

NextFn ==
    \/ CallSphereIntersect
    \/ CallCubeIntersect
    \/ CallGetDiffuseColor
    \/ CallCastShadow
    \/ CallRefract
    \/ CallUpscale

SpecFn == InitFn /\ [][NextFn]_vars

\* ------------------------------------------------------------------------
\* Properties of the intersection routines and of the texture lookup
\* ------------------------------------------------------------------------
IsIntersectCall == call.fn \in {"Sphere::ray_intersect", "Cube::ray_intersect"}

\* the ray parameters at which a lattice ray can enter or leave a lattice box
ParamSteps == 4 * (FarCoord + GridMax)
PosParams == {k * (Unit \div 2) : k \in 1..ParamSteps}

InsideCube(self, p) ==
    LET mitad == self.size \div 2
    IN  \A i \in 1..3 : /\ self.center[i] - mitad <= p[i]
                        /\ p[i] <= self.center[i] + mitad

\* the point o + t d for lattice o, unit-step d and lattice t (exact)
PointAt(o, d, t) == [i \in 1..3 |-> o[i] + (d[i] \div Unit) * t]

\* some point of the ray at a parameter t > 0 lies in the cube
CubeAhead(self, o, d) == \E t \in PosParams : InsideCube(self, PointAt(o, d, t))

\* some point of the ray at a parameter t > 0 lies in the sphere: the
\* quadratic a t^2 + b t + c is <= 0 for some t > 0 (integers, in steps)
SphereAhead(self, o, d) ==
    LET oc == [i \in 1..3 |-> (o[i] - self.center[i]) \div (Unit \div 2)]
        dd == [i \in 1..3 |-> d[i] \div Unit]
        r == self.radius \div (Unit \div 2)
        a == dd[1] * dd[1] + dd[2] * dd[2] + dd[3] * dd[3]
        b == 2 * (oc[1] * dd[1] + oc[2] * dd[2] + oc[3] * dd[3])
        c == oc[1] * oc[1] + oc[2] * oc[2] + oc[3] * oc[3] - r * r
    IN  IF a = 0 THEN c <= 0
        ELSE b * b - 4 * a * c >= 0 /\ (b < 0 \/ c < 0)

ShapeAhead ==
    IF call.fn = "Cube::ray_intersect"
    THEN CubeAhead(call.self, call.ray_origin, call.ray_direction)
    ELSE SphereAhead(call.self, call.ray_origin, call.ray_direction)

\* C4: every ray_intersect result of Sphere and Cube that reports a hit has
\* a strictly positive distance, and a ray (of non-zero direction) with no
\* point of the primitive at a positive parameter gets the non-hit Intersect.
C4_HitsArePositive ==
    (IsIntersectCall /\ ret.done /\ call.ray_direction # VZero) =>
        /\ ret.value.is_intersecting => FGt[ret.value.distance, 0]
        /\ ~ShapeAhead => ~ret.value.is_intersecting

\* C5: Cube::ray_intersect and get_diffuse_color never panic: the face index
\* that selects materials[face_index] is one of 0..5, whichever axes pass the
\* face-proximity test, and the texel index is below width * height for
\* every u and v.
C5_NoPanic ==
    ret.done =>
        /\ ~ret.panic
        /\ call.fn = "Cube::ray_intersect" => ret.aux \in 0..5
        /\ call.fn = "Material::get_diffuse_color" =>
               ret.aux < call.self.texture[1].width * call.self.texture[1].height

\* a hit on an edge or corner of the cube: several axes pass the proximity
\* test and the material of the last one is returned
C5_Witness ==
    /\ call.fn = "Cube::ray_intersect"
    /\ ret.done /\ ~ret.panic
    /\ ret.value.is_intersecting
    /\ Cardinality({i \in 1..3 : ret.value.normal[i] # 0}) >= 2
    /\ ret.value.material = call.self.materials[ret.aux + 1]

\* C10: for a sphere of radius r centred at the origin, 0 < r < 5, the ray
\* from (0,0,5) in direction (0,0,-1) hits at distance 5 - r, at the point
\* (0,0,r) with normal (0,0,1).
C10_AxisRayHitsSphere ==
    (/\ call.fn = "Sphere::ray_intersect"
     /\ call.self.center = VZero
     /\ call.self.radius > 0 /\ call.self.radius < F[FarCoord]
     /\ call.ray_origin = Vec[0, 0, F[FarCoord]]
     /\ call.ray_direction = Vec[0, 0, 0 - F[1]]
     /\ ret.done) =>
        /\ ret.value.is_intersecting
        /\ ret.value.distance = F[FarCoord] - call.self.radius
        /\ ret.value.point = Vec[0, 0, call.self.radius]
        /\ ret.value.normal = Vec[0, 0, F[1]]

C10_Witness ==
    /\ call.fn = "Sphere::ray_intersect"
    /\ call.self.radius = Lit[3, 2]
    /\ call.ray_origin = Vec[0, 0, F[FarCoord]]
    /\ call.ray_direction = Vec[0, 0, 0 - F[1]]
    /\ ret.done
    /\ ret.value.is_intersecting
    /\ ret.value.distance = F[FarCoord] - Lit[3, 2]

MaxLights == 2

\* the light of main first
LightPool ==
    <<LightNew[Vec[F[5], F[5], F[5]], ColorNew[255, 255, 255], Lit[8, 10]],
      LightNew[Vec[0, F[5], 0], ColorNew[255, 255, 255], F[2]],
      LightNew[Vec[0 - F[5], F[5], F[5]], ColorNew[255, 200, 100], Lit[2, 10]],
      LightNew[Vec[0, 0, F[4]], ColorNew[255, 255, 255], F[1]]>>

\* up to MaxLights consecutive lights of the pool
LightLists ==
    {SubSeq(LightPool, p[1], p[2]) :
        p \in {q \in (1..Len(LightPool)) \X (0..Len(LightPool)) :
                  q[2] + 1 >= q[1] /\ q[2] - q[1] < MaxLights}}

SceneTexture ==
    TextureNew[2, 2, <<ColorNew[200, 40, 40], ColorNew[40, 200, 40],
                       ColorNew[40, 40, 200], ColorNew[250, 250, 250]>>]

\* the materials of main: textured, albedo [0.6, 0.3, 0.1, 0.1], specular 50
MainMaterial ==
    MaterialNew[ColorNew[255, 255, 255], F[50], MainAlbedo, MainRefractiveIndex,
                <<SceneTexture>>]
MirrorMaterial ==
    MaterialNew[ColorNew[200, 200, 200], F[10], <<Lit[6, 10], Lit[3, 10], F[1], 0>>,
                F[1], <<>>]
GlassMaterial ==
    MaterialNew[ColorNew[150, 200, 250], F[10], <<Lit[1, 10], Lit[5, 10], Lit[1, 10], Lit[8, 10]>>,
                MainRefractiveIndex, <<>>]
MatteMaterial ==
    MaterialNew[ColorNew[255, 255, 255], F[2], <<F[1], F[1], 0, 0>>, F[1], <<>>]
\* reflect and refract weights whose sum exceeds 1
OverUnityMaterial ==
    MaterialNew[ColorNew[255, 255, 255], F[2], <<F[1], F[1], Lit[8, 10], Lit[8, 10]>>,
                MainRefractiveIndex, <<>>]

UniformCube[center \in Any, size \in Any, material \in Any] == CubeNew[center, size, [k \in 1..6 |-> material]]

Scenes ==
    {<<>>,
     <<UniformCube[VZero, F[2], MainMaterial],
       UniformCube[Vec[0, F[2], 0], F[2], MainMaterial]>>,
     <<UniformCube[Vec[0 - F[3], 0, 0], F[2], MirrorMaterial],
       UniformCube[Vec[F[3], 0, 0], F[2], MirrorMaterial]>>,
     <<UniformCube[Vec[0, 0, F[1]], F[2], GlassMaterial],
       UniformCube[Vec[0, 0, 0 - F[3]], F[2], MainMaterial]>>,
     <<UniformCube[VZero, F[2], MatteMaterial]>>,
     <<UniformCube[VZero, F[2], OverUnityMaterial],
       SphereNew[Vec[0, 0, F[3]], F[1], MatteMaterial]>>,
     <<SphereNew[VZero, F[1], MainMaterial],
       UniformCube[Vec[0, 0 - F[2], 0], F[2], GlassMaterial]>>}

PrimaryEyes == {Vec[0, 0, F[5]], VZero, Vec[0, F[3], F[5]]}
\* unit directions
PrimaryDirections ==
    {Vec[0, 0, 0 - F[1]], Vec[F[1], 0, 0], Vec[0 - F[1], 0, 0], Vec[0, F[1], 0],
     Vec[0, 0 - Lit[6, 10], 0 - Lit[8, 10]], Vec[Lit[6, 10], 0, 0 - Lit[8, 10]]}

InitPixel ==
    /\ call = [fn |-> "render"]
    /\ ret = NotCalled
    /\ objects \in Scenes
    /\ lights \in LightLists
    /\ primary \in {[eye |-> e, direction |-> d] : e \in PrimaryEyes, d \in PrimaryDirections}
    /\ camera = MainCamera
    /\ IdleRender
    /\ IdleLoop
    /\ stack = <<>>
    /\ rv = <<>>
    /\ acc = Black
    /\ light_index = 1
    /\ pixel = <<>>
    /\ calls = 0
    /\ scans = 0

\* the locals of a cast_ray call that has not reached them yet
NoLocals ==
    [ambient_light |-> Black, diffuse |-> Black, shadow_intensity |-> 0,
     specular |-> Black]

\* a cast_ray call at its first statement
Frame[ray_origin \in Any, ray_direction \in Any, depth \in Any] ==
    [pc |-> "entry", ray_origin |-> ray_origin, ray_direction |-> ray_direction,
     depth |-> depth, closest_intersection |-> Intersect_empty, locals |-> NoLocals,
     final_color |-> Black, reflect_color |-> Black, refract_color |-> Black,
     result |-> Black]

Top == stack[Len(stack)]
Pop == SubSeq(stack, 1, Len(stack) - 1)
ReplaceTop(frame) == [stack EXCEPT ![Len(stack)] = frame]
Running(pc) == stack # <<>> /\ Top.pc = pc

\* the closure's fold calls cast_ray for the next light, at depth 0
RenderCastRay ==
    /\ pixel = <<>>
    /\ stack = <<>>
    /\ rv = <<>>
    /\ light_index <= Len(lights)
    /\ stack' = <<Frame[primary.eye, primary.direction, 0]>>
    /\ calls' = 1
    /\ scans' = 0
    /\ UNCHANGED <<camVars, fnVars, sceneVars, loopVars, renVars, primary, rv, acc, light_index, pixel>>

\* `if depth > 1 { return background }`
CastRayDepthLimit ==
    /\ Running("entry")
    /\ Top.depth > RecursionLimit
    /\ rv' = <<Background>>
    /\ stack' = Pop
    /\ UNCHANGED <<camVars, fnVars, sceneVars, loopVars, renVars, primary, acc, light_index, pixel, calls, scans>>

\* the scan finds no intersection: `return background`
CastRayMiss ==
    /\ Running("entry")
    /\ Top.depth <= RecursionLimit
    /\ ~ClosestIntersection[objects, Top.ray_origin, Top.ray_direction].is_intersecting
    /\ rv' = <<Background>>
    /\ stack' = Pop
    /\ scans' = scans + 1
    /\ UNCHANGED <<camVars, fnVars, sceneVars, loopVars, renVars, primary, acc, light_index, pixel, calls>>

\* the frame after the direct lighting of its hit
ShadedFrame[frame \in Any, closest_intersection \in Any, locals \in Any] ==
    [frame EXCEPT !.pc = "reflect",
                  !.closest_intersection = closest_intersection,
                  !.locals = locals,
                  !.final_color = SumColor3[locals.ambient_light, locals.diffuse,
                                            locals.specular]]

ShadeFrame[frame \in Any, light \in Any, closest_intersection \in Any] ==
    ShadedFrame[frame, closest_intersection,
                Shade[frame.ray_origin, frame.ray_direction, objects, light,
                      closest_intersection]]

\* the scan finds a hit: ambient, diffuse, shadow, specular and final_color
CastRayShade ==
    /\ Running("entry")
    /\ Top.depth <= RecursionLimit
    /\ ClosestIntersection[objects, Top.ray_origin, Top.ray_direction].is_intersecting
    /\ stack' = ReplaceTop(ShadeFrame[Top, lights[light_index],
                   ClosestIntersection[objects, Top.ray_origin, Top.ray_direction]])
    /\ scans' = scans + 1
    /\ UNCHANGED <<camVars, fnVars, sceneVars, loopVars, renVars, primary, rv, acc, light_index, pixel, calls>>

Reflectivity[frame \in Any] == frame.closest_intersection.material.albedo[3]
Transparency[frame \in Any] == frame.closest_intersection.material.albedo[4]

\* the call a frame makes for the ray `ray`
\* the same call without the increment of depth
CalleeSameDepth(frame, ray) == Frame[ray.origin, ray.direction, frame.depth]

Callee(frame, ray) == Frame[ray.origin, ray.direction, frame.depth + 1]

\* `if reflectivity > 0.0`: the recursive call for the reflected ray
CastRayReflectCall ==
    /\ Running("reflect")
    /\ FGt[Reflectivity[Top], 0]
    /\ stack' = Append(ReplaceTop([Top EXCEPT !.pc = "reflected"]),
                       Callee(Top, ReflectRay[Top.ray_direction, Top.closest_intersection]))
    /\ calls' = calls + 1
    /\ UNCHANGED <<camVars, fnVars, sceneVars, loopVars, renVars, primary, rv, acc, light_index, pixel, scans>>

CastRayReflectSkip ==
    /\ Running("reflect")
    /\ ~FGt[Reflectivity[Top], 0]
    /\ stack' = ReplaceTop([Top EXCEPT !.pc = "refract"])
    /\ UNCHANGED <<camVars, fnVars, sceneVars, loopVars, renVars, primary, rv, acc, light_index, pixel, calls, scans>>

\* the reflected call returned: reflect_color is its colour times reflectivity
CastRayReflectReturn ==
    /\ Running("reflected")
    /\ rv # <<>>
    /\ stack' = ReplaceTop([Top EXCEPT !.pc = "refract",
                                       !.reflect_color = ScaleColor[rv[1], Reflectivity[Top]]])
    /\ rv' = <<>>
    /\ UNCHANGED <<camVars, fnVars, sceneVars, loopVars, renVars, primary, acc, light_index, pixel, calls, scans>>

\* `if transparency > 0.0`: the recursive call for the refracted ray
CastRayRefractCall ==
    /\ Running("refract")
    /\ FGt[Transparency[Top], 0]
    /\ stack' = Append(ReplaceTop([Top EXCEPT !.pc = "refracted"]),
                       Callee(Top, RefractRay[Top.ray_direction, Top.closest_intersection]))
    /\ calls' = calls + 1
    /\ UNCHANGED <<camVars, fnVars, sceneVars, loopVars, renVars, primary, rv, acc, light_index, pixel, scans>>

CastRayRefractSkip ==
    /\ Running("refract")
    /\ ~FGt[Transparency[Top], 0]
    /\ stack' = ReplaceTop([Top EXCEPT !.pc = "blend"])
    /\ UNCHANGED <<camVars, fnVars, sceneVars, loopVars, renVars, primary, rv, acc, light_index, pixel, calls, scans>>

\* the refracted call returned: refract_color is its colour times transparency
CastRayRefractReturn ==
    /\ Running("refracted")
    /\ rv # <<>>
    /\ stack' = ReplaceTop([Top EXCEPT !.pc = "blend",
                                       !.refract_color = ScaleColor[rv[1], Transparency[Top]]])
    /\ rv' = <<>>
    /\ UNCHANGED <<camVars, fnVars, sceneVars, loopVars, renVars, primary, acc, light_index, pixel, calls, scans>>

\* the value of the final expression of cast_ray
CastRayBlend ==
    /\ Running("blend")
    /\ stack' = ReplaceTop([Top EXCEPT !.pc = "return",
                                       !.result = BlendColor[Top.final_color, Top.reflect_color,
                                                             Top.refract_color, Reflectivity[Top],
                                                             Transparency[Top]]])
    /\ UNCHANGED <<camVars, fnVars, sceneVars, loopVars, renVars, primary, rv, acc, light_index, pixel, calls, scans>>

\* the call returns that value to its caller
CastRayReturn ==
    /\ Running("return")
    /\ rv' = <<Top.result>>
    /\ stack' = Pop
    /\ UNCHANGED <<camVars, fnVars, sceneVars, loopVars, renVars, primary, acc, light_index, pixel, calls, scans>>

\* the fold adds the colour of the light to the accumulator
RenderAccumulate ==
    /\ stack = <<>>
    /\ rv # <<>>
    /\ acc' = SumColor2[acc, rv[1]]
    /\ light_index' = light_index + 1
    /\ rv' = <<>>
    /\ UNCHANGED <<camVars, fnVars, sceneVars, loopVars, renVars, primary, stack, pixel, calls, scans>>

\* `*pixel = (r << 16) | (g << 8) | b` once the fold is over
RenderStorePixel ==
    /\ stack = <<>>
    /\ rv = <<>>
    /\ pixel = <<>>
    /\ light_index > Len(lights)
    /\ pixel' = <<PackPixel[acc]>>
    /\ UNCHANGED <<camVars, fnVars, sceneVars, loopVars, renVars, primary, stack, rv, acc, light_index, calls, scans>>

NextPixel ==
    \/ RenderCastRay
    \/ CastRayDepthLimit
    \/ CastRayMiss
    \/ CastRayShade
    \/ CastRayReflectCall
    \/ CastRayReflectSkip
    \/ CastRayReflectReturn
    \/ CastRayRefractCall
    \/ CastRayRefractSkip
    \/ CastRayRefractReturn
    \/ CastRayBlend
    \/ CastRayReturn
    \/ RenderAccumulate
    \/ RenderStorePixel

SpecPixel == InitPixel /\ [][NextPixel]_vars

\* the closure is sequential code: some step is always taken while one is possible
SpecPixelFair == SpecPixel /\ WF_vars(NextPixel)

\* ------------------------------------------------------------------------
\* Properties of cast_ray and of the pixel closure
\* ------------------------------------------------------------------------
Frames == {stack[i] : i \in 1..Len(stack)}

\* the limits the recursion keeps: depth at most 2, at most three nested calls
\* and at most 1 + 2 + 4 invocations for one primary ray
C1_RecursionBounds ==
    /\ \A frame \in Frames : frame.depth <= 2
    /\ Len(stack) <= 3
    /\ calls <= 7

\* a call beyond the depth limit returns the background in one step, without
\* scanning the geometry
C1_DepthLimitStep ==
    (Running("entry") /\ Top.depth > 1)
        => /\ rv' = <<ColorNew[4, 12, 36]>>
           /\ stack' = Pop
           /\ scans' = scans

\* C1: every cast_ray call terminates on every scene: the recursion keeps
\* C1_RecursionBounds, a call of depth above 1 returns the background at once
\* without testing the geometry, every call in progress returns and the
\* pixel is stored.
C1_CastRayTerminates ==
    /\ []C1_RecursionBounds
    /\ [][C1_DepthLimitStep]_vars
    /\ (stack # <<>>) ~> (stack = <<>>)
    /\ <>(pixel # <<>>)

\* a primary ray whose call made all seven invocations and reached depth 2
\* has returned
C1_Witness ==
    /\ stack = <<>>
    /\ rv # <<>>
    /\ calls = 7
    /\ scans = 3

\* no primitive of the list reports a hit for the ray
NoPrimitiveHit(ray_origin, ray_direction) ==
    \A i \in 1..Len(objects) :
        ~ray_intersect[objects[i], ray_origin, ray_direction].is_intersecting

\* C2: a cast_ray call, of any depth, whose ray hits no primitive returns the
\* background colour (4, 12, 36).
C2_MissReturnsBackground ==
    [][(Running("entry") /\ NoPrimitiveHit(Top.ray_origin, Top.ray_direction))
          => (rv' = <<ColorNew[4, 12, 36]>> /\ stack' = Pop)]_vars

\* the primary ray of a non-empty scene missed every primitive and its call
\* returned the background
C2_Witness ==
    /\ objects # <<>>
    /\ NoPrimitiveHit(primary.eye, primary.direction)
    /\ stack = <<>>
    /\ calls = 1
    /\ scans = 1
    /\ rv = <<ColorNew[4, 12, 36]>>

Channels(color) == {color.r, color.g, color.b}
IsColor(color) == Channels(color) \subseteq 0..255

\* what a channel of exact value `value` (in steps of 1/Unit) must become:
\* 0 below zero, 255 from 255 on, the integer part in between
Saturated(value) ==
    IF value < 0 THEN 0 ELSE IF value >= 255 * Unit THEN 255 ELSE value \div Unit

ChannelNames == {"r", "g", "b"}

\* the colours of a frame are channels, final_color is the saturated sum
\* of ambient, diffuse and specular and, once computed, the result is the
\* saturated blend
FrameSaturates(frame) ==
    /\ IsColor(frame.final_color) /\ IsColor(frame.reflect_color)
    /\ IsColor(frame.refract_color) /\ IsColor(frame.result)
    /\ IsColor(frame.locals.ambient_light) /\ IsColor(frame.locals.diffuse)
    /\ IsColor(frame.locals.specular)
    /\ \A ch \in ChannelNames :
        /\ frame.pc # "entry" =>
              frame.final_color[ch] =
                  Saturated(Unit * (frame.locals.ambient_light[ch]
                                    + frame.locals.diffuse[ch]
                                    + frame.locals.specular[ch]))
        /\ frame.pc = "return" =>
              frame.result[ch] =
                  Saturated(BlendValue[frame.final_color[ch], frame.reflect_color[ch],
                                       frame.refract_color[ch], Reflectivity[frame],
                                       Transparency[frame]])

SegmentPoint(p, q, k) == [i \in 1..3 |-> p[i] + ((q[i] - p[i]) * k) \div 8]

\* p lies in the open interior of the object
StrictlyInside(object, p) ==
    IF object.kind = "cube"
    THEN \A i \in 1..3 : /\ 2 * (object.center[i] - p[i]) < object.size
                         /\ 2 * (p[i] - object.center[i]) < object.size
    ELSE (p[1] - object.center[1]) * (p[1] - object.center[1])
           + (p[2] - object.center[2]) * (p[2] - object.center[2])
           + (p[3] - object.center[3]) * (p[3] - object.center[3])
           < object.radius * object.radius

\* p lies in the object or on its surface
InsideOrOn(object, p) ==
    IF object.kind = "cube"
    THEN \A i \in 1..3 : /\ 2 * (object.center[i] - p[i]) <= object.size
                         /\ 2 * (p[i] - object.center[i]) <= object.size
    ELSE (p[1] - object.center[1]) * (p[1] - object.center[1])
           + (p[2] - object.center[2]) * (p[2] - object.center[2])
           + (p[3] - object.center[3]) * (p[3] - object.center[3])
           <= object.radius * object.radius

\* the object lies strictly between the point p and the light at q: the
\* segment crosses its interior and neither end touches it
StrictlyBetween(object, p, q) ==
    /\ ~InsideOrOn(object, p)
    /\ ~InsideOrOn(object, q)
    /\ \E k \in 1..7 : StrictlyInside(object, SegmentPoint(p, q, k))

\* the shadow ray of the query hits the object closer to the point than the light
CloserHit(object, intersect, light) ==
    \E hit \in {ray_intersect[object,
                              VAdd[intersect.point, VScale[intersect.normal, OffsetEps]],
                              VNormalize[VSub[light.position, intersect.point]]]} :
        /\ hit.is_intersecting
        /\ FLt[VMagnitude[VSub[hit.point, intersect.point]],
               VMagnitude[VSub[light.position, intersect.point]]]

Occluders(list, intersect, light) ==
    {i \in 1..Len(list) : StrictlyBetween(list[i], intersect.point, light.position)}

\* C9: cast_shadow returns a factor in [0, 1]: 0 when the shadow ray hits no
\* primitive closer to the point than the light, and more than 0 whenever
\* an occluder lies strictly between the point and the light.
C9_ShadowFactor ==
    (call.fn = "cast_shadow" /\ ret.done) =>
        /\ ~ret.panic
        /\ 0 <= ret.value /\ ret.value <= Unit
        /\ (\A i \in 1..Len(call.objects) : ~CloserHit(call.objects[i], call.intersect, call.light))
              => ret.value = 0
        /\ Occluders(call.objects, call.intersect, call.light) # {}
              => ret.value > 0

\* the objects of a list at the positions outside `drop`
RECURSIVE Without(_, _, _)
Without(list, drop, i) ==
    IF i > Len(list) THEN <<>>
    ELSE IF i \in drop THEN Without(list, drop, i + 1)
    ELSE <<list[i]>> \o Without(list, drop, i + 1)

\* a query with an occluder strictly between returned more than 0, while
\* the same query without the occluders gives 0
C9_Witness ==
    /\ call.fn = "cast_shadow"
    /\ ret.done
    /\ Len(call.objects) = 2
    /\ Occluders(call.objects, call.intersect, call.light) # {}
    /\ ret.value > 0
    /\ ret.value < Unit
    /\ cast_shadow[call.intersect, call.light,
                   Without(call.objects, Occluders(call.objects, call.intersect, call.light), 1)] = 0

\* the frames that wait for the call they made for a reflected ray, each
\* with the frame of that call
ReflectCalls ==
    {<<stack[k], stack[k + 1]>> : k \in {j \in 1..(Len(stack) - 1) : stack[j].pc = "reflected"}}

\* C15: with reflect_k > 0 the secondary ray has the direction
\* d - 2(d.n)n of the incoming direction d and the hit normal n, so for
\* d.n < 0 it leaves the surface (direction.n > 0); it starts at
\* point + n * 1e-3 and is traced with depth + 1.
C15_ReflectedRayLeaves ==
    \A c \in ReflectCalls :
        /\ c[2].ray_direction
              = VNormalize[reflect[c[1].ray_direction, c[1].closest_intersection.normal]]
        /\ FLt[VDot[c[1].ray_direction, c[1].closest_intersection.normal], 0]
              => FGt[VDot[c[2].ray_direction, c[1].closest_intersection.normal], 0]
        /\ c[2].ray_origin
              = VAdd[c[1].closest_intersection.point,
                     VScale[c[1].closest_intersection.normal, OffsetEps]]
        /\ c[2].depth = c[1].depth + 1

\* the frames whose hit has been shaded
ShadedFrames == {frame \in Frames : frame.pc # "entry"}

\* diffuse_k * diffuse_color * lambert * intensity * (1 - s) for the hit of
\* the frame and the light of the fold
AttenuatedDiffuse(frame) ==
    Scale3Color[get_diffuse_color[frame.closest_intersection.material,
                                  frame.closest_intersection.u,
                                  frame.closest_intersection.v],
                frame.closest_intersection.material.albedo[1],
                DiffuseIntensity[frame.closest_intersection, lights[light_index]],
                FMul[lights[light_index].intensity,
                     FSub[F[1], frame.locals.shadow_intensity]]]

\* C16: the diffuse and the specular term of a light are both multiplied by
\* light.intensity * (1 - shadow): a hit with shadow factor s gets the
\* diffuse contribution diffuse_k * diffuse_color * lambert * intensity * (1 - s).
C16_DiffuseAttenuated ==
    \A frame \in ShadedFrames : frame.locals.diffuse = AttenuatedDiffuse(frame)

\* the colour the recursive call of the frame for the ray returns
ReturnedFor(frame, ray) ==
    cast_ray(ray.origin, ray.direction, objects, lights[light_index], frame.depth + 1)

\* R and T of the frame: the colours returned for the reflected and for the
\* refracted ray, black when the ray is not traced
ReflectedColour(frame) ==
    IF FGt[Reflectivity[frame], 0]
    THEN ReturnedFor(frame, ReflectRay[frame.ray_direction, frame.closest_intersection])
    ELSE Black
RefractedColour(frame) ==
    IF FGt[Transparency[frame], 0]
    THEN ReturnedFor(frame, RefractRay[frame.ray_direction, frame.closest_intersection])
    ELSE Black

\* C17: the colour cast_ray returns for a hit is, per channel,
\* local * (1 - reflect_k - refract_k) + R * reflect_k + T * refract_k
\* saturated to [0, 255], R and T being the colours the recursive calls
\* returned: each is weighted by its coefficient once.
C17_BlendWeightsOnce ==
    \A frame \in Frames :
        frame.pc = "return" =>
            frame.result = BlendColor[frame.final_color, ReflectedColour(frame),
                                      RefractedColour(frame), Reflectivity[frame],
                                      Transparency[frame]]

\* the number of cast_ray calls at depth 0 the fold has made and finished
TopLevelCalls == light_index - 1

\* C18: for a pixel render calls cast_ray once at depth 0 with the lights of
\* the scene and stores the result as (r << 16) | (g << 8) | b, the top
\* 8 bits zero; the pixel of a primary ray that misses every primitive is
\* 0x040C24 whatever the number of lights, zero and more than one included.
C18_OneCallPerPixel ==
    pixel # <<>> =>
        /\ TopLevelCalls = 1
        /\ pixel[1] \in 0..(256 * 256 * 256 - 1)
        /\ NoPrimitiveHit(primary.eye, primary.direction)
              => pixel[1] = 4 * 65536 + 12 * 256 + 36

\* the frames that wait for the call they made for a refracted ray, each
\* with the frame of that call
RefractCalls ==
    {<<stack[k], stack[k + 1]>> : k \in {j \in 1..(Len(stack) - 1) : stack[j].pc = "refracted"}}

\* the side of the surface of the hit `intersect` the point p lies on:
\* (p - point).normal, positive on the side the normal points to
SideOf(intersect, p) == VDot[VSub[p, intersect.point], intersect.normal]

\* C19: with refract_k > 0 the refracted ray is traced with depth + 1 and,
\* for a ray that arrives from the side of the normal, starts at
\* point - normal * 1e-3: behind the surface, on the other side from the
\* origin point + normal * 1e-3 of the reflected ray.
C19_RefractedRayStartsInside ==
    \A c \in RefractCalls :
        /\ c[2].depth = c[1].depth + 1
        /\ FLt[VDot[c[1].ray_direction, c[1].closest_intersection.normal], 0] =>
              /\ c[2].ray_origin
                    = VSub[c[1].closest_intersection.point,
                           VScale[c[1].closest_intersection.normal, Lit[1, 1000]]]
              /\ SideOf(c[1].closest_intersection, c[2].ray_origin) < 0

\* the refraction formula applied with the relative index eta and the
\* normal n_normal, for the cosine n_cosi = -(incident . n_normal)
SnellWith(incident, eta, n_normal) ==
    RefractWith[incident, FNeg[VDot[incident, n_normal]], eta, n_normal]

\* C20: refract tells entering from exiting rays: for incident.normal < 0
\* (entering) it applies the formula with eta = 1 / eta_t, for
\* incident.normal > 0 (exiting) with eta = eta_t, and either way with the
\* normal turned against the incident direction.
C20_EtaOfEnteringRay ==
    (call.fn = "refract" /\ ret.done) =>
        /\ FLt[VDot[call.incident, call.normal], 0] =>
              ret.value = SnellWith(call.incident, FDiv[F[1], call.eta_t], call.normal)
        /\ FGt[VDot[call.incident, call.normal], 0] =>
              ret.value = SnellWith(call.incident, call.eta_t, VNeg[call.normal])

\* the locals of the refract call of the state: cosi, the selected eta,
\* n_cosi and n_normal, and k
CallCosi == FNeg[FMin[FMax[VDot[call.incident, call.normal], 0 - F[1]], F[1]]]
CallEta == IF FLt[CallCosi, 0] THEN FDiv[F[1], call.eta_t] ELSE call.eta_t
CallNCosi == IF FLt[CallCosi, 0] THEN FNeg[CallCosi] ELSE CallCosi
CallNNormal == IF FLt[CallCosi, 0] THEN VNeg[call.normal] ELSE call.normal
CallK == FSub[F[1], FMul[FMul[CallEta, CallEta], FSub[F[1], FMul[CallNCosi, CallNCosi]]]]

\* C21: refract never fails; with k = 1 - eta^2 * (1 - n_cosi^2) it returns
\* reflect(incident, n_normal) exactly when k < 0, and
\* eta * incident + (eta * n_cosi - sqrt(k)) * n_normal otherwise; k < 0
\* happens only for a selected eta greater than 1.
C21_TotalInternalReflection ==
    (call.fn = "refract" /\ ret.done) =>
        /\ ~ret.panic
        /\ CallK < 0 =>
              /\ ret.value = VSub[call.incident,
                                  VScale[CallNNormal,
                                         FMul[F[2], VDot[call.incident, CallNNormal]]]]
              /\ CallEta > Unit
        /\ CallK >= 0 =>
              ret.value = VAdd[VScale[call.incident, CallEta],
                               VScale[CallNNormal,
                                      FSub[FMul[CallEta, CallNCosi], FSqrt[CallK]]]]

\* a refract call with k < 0 returned the reflection of the incident
\* direction, and it is not the direction the other branch would give
C21_Witness ==
    /\ call.fn = "refract"
    /\ ret.done
    /\ CallK < 0
    /\ CallEta > Unit
    /\ ret.value = reflect[call.incident, CallNNormal]
    /\ ret.value # VScale[call.incident, CallEta]

\* the light a frame is shaded for and the diffuse colour of its hit
LightOf(frame) == lights[light_index]
DiffuseColourOf(frame) ==
    get_diffuse_color[frame.closest_intersection.material,
                      frame.closest_intersection.u, frame.closest_intersection.v]

\* C22: for a light of intensity <= 0.3 cast_ray adds diffuse_color *
\* intensity and computes neither a shadow nor a specular term; a light of
\* intensity > 0.3 contributes no such unshadowed ambient term.
C22_AmbientLightTag ==
    \A frame \in ShadedFrames :
        /\ FLe[LightOf(frame).intensity, Lit[3, 10]] =>
              /\ frame.final_color
                    = ScaleColor[DiffuseColourOf(frame), LightOf(frame).intensity]
              /\ frame.locals.specular = Black
        /\ FGt[LightOf(frame).intensity, Lit[3, 10]] =>
              frame.locals.ambient_light = Black

\* what the primitive at position i reports for the ray of a frame, and the
\* positions of the primitives that report a hit
ReportOf(frame, i) == ray_intersect[objects[i], frame.ray_origin, frame.ray_direction]
Reporting(frame) == {i \in 1..Len(objects) : ReportOf(frame, i).is_intersecting}

\* position i reports a hit no farther than any other reported hit, and is
\* the first position among those that report its distance
NearestFirst(frame, i) ==
    /\ i \in Reporting(frame)
    /\ \A j \in Reporting(frame) :
          /\ FLe[ReportOf(frame, i).distance, ReportOf(frame, j).distance]
          /\ ReportOf(frame, j).distance = ReportOf(frame, i).distance => i <= j

\* C23: cast_ray shades the hit of minimum distance among the primitives
\* that report a hit: no other reported hit is closer, and of several
\* primitives at the same minimum distance the first of the list is used.
C23_ShadesNearestHit ==
    [][(Running("entry") /\ Top.depth <= RecursionLimit /\ Reporting(Top) # {})
          => /\ Len(stack') = Len(stack)
             /\ stack'[Len(stack)].pc = "reflect"
             /\ \E i \in Reporting(Top) :
                   /\ NearestFirst(Top, i)
                   /\ stack'[Len(stack)].closest_intersection = ReportOf(Top, i)]_vars

\* a frame has been shaded for a ray that two primitives report at the
\* same distance and a third one, or the same two, not closer: the hit kept
\* is the one of the earlier primitive, which differs from the later one
C23_Witness ==
    /\ Running("reflect")
    /\ \E i, j \in Reporting(Top) :
          /\ i < j
          /\ ReportOf(Top, i).distance = ReportOf(Top, j).distance
          /\ ReportOf(Top, i) # ReportOf(Top, j)
          /\ NearestFirst(Top, i)
          /\ Top.closest_intersection = ReportOf(Top, i)

\* the hit the shadow ray of the cast_shadow call of the state has on the
\* object at position i of its list
ShadowHit(i) ==
    ray_intersect[call.objects[i],
                  VAdd[call.intersect.point, VScale[call.intersect.normal, Lit[1, 1000]]],
                  VNormalize[VSub[call.light.position, call.intersect.point]]]

\* the distance from the shaded point to that hit, and to the light
OccluderDistance(i) == VMagnitude[VSub[ShadowHit(i).point, call.intersect.point]]
LightDistance == VMagnitude[VSub[call.light.position, call.intersect.point]]

\* the positions whose object is hit closer to the point than the light
Stopping ==
    {i \in 1..Len(call.objects) :
        ShadowHit(i).is_intersecting /\ FLt[OccluderDistance(i), LightDistance]}

\* the first of them
FirstStopping == CHOOSE i \in Stopping : \A j \in Stopping : i <= j

\* C24: cast_shadow visits the primitives in list order and stops at the
\* first one hit closer to the point than the light: the factor returned is
\* 1 - min(1, d_occluder / d_light) of that primitive, also when a later
\* primitive occludes at a smaller distance, and a primitive hit at or
\* beyond the distance of the light does not stop the scan.
C24_FirstOccluderStops ==
    (call.fn = "cast_shadow" /\ ret.done) =>
        /\ Stopping = {} => ret.value = 0
        /\ Stopping # {} =>
              ret.value = FSub[F[1], FMin[FDiv[OccluderDistance(FirstStopping), LightDistance],
                                          F[1]]]

\* a shadow query returned the factor of its first object although the
\* second object occludes closer to the point and would give another factor
C24_Witness ==
    /\ call.fn = "cast_shadow"
    /\ ret.done
    /\ Stopping = {1, 2}
    /\ FLt[OccluderDistance(2), OccluderDistance(1)]
    /\ ret.value = FSub[F[1], FMin[FDiv[OccluderDistance(1), LightDistance], F[1]]]
    /\ ret.value # FSub[F[1], FMin[FDiv[OccluderDistance(2), LightDistance], F[1]]]

\* the axes on which a vector is not zero
NonZeroAxes(v) == {i \in 1..3 : v[i] # 0}

\* n is +1 or -1 on the axis i and the point p lies on the face of the cube
\* on that side of its centre
OutwardOn(self, p, n, i) ==
    /\ n[i] \in {Unit, 0 - Unit}
    /\ 2 * (p[i] - self.center[i]) * (n[i] \div Unit) = self.size

\* C25: the normal of every hit of Cube::ray_intersect is a unit vector with
\* exactly one non-zero component, +1 or -1 on the axis of the face struck
\* and pointing out of the box, for hit points on an edge or a corner and
\* for rays that start inside the box as well (rays of non-zero direction).
C25_CubeNormalIsAxis ==
    (call.fn = "Cube::ray_intersect" /\ ret.done /\ ~ret.panic
        /\ call.ray_direction # VZero /\ ret.value.is_intersecting) =>
        \E i \in 1..3 :
            /\ NonZeroAxes(ret.value.normal) = {i}
            /\ OutwardOn(call.self, ret.value.point, ret.value.normal, i)

\* the index main documents for the face with the outward normal n:
\* +X 0, -X 1, +Y 2, -Y 3, +Z 4, -Z 5
DocumentedFace(n) ==
    CASE n = Vec[F[1], 0, 0] -> 0
      [] n = Vec[0 - F[1], 0, 0] -> 1
      [] n = Vec[0, F[1], 0] -> 2
      [] n = Vec[0, 0 - F[1], 0] -> 3
      [] n = Vec[0, 0, F[1]] -> 4
      [] n = Vec[0, 0, 0 - F[1]] -> 5

\* the hit returned lies on one face only, the one of its normal
OnOneFace ==
    \E i \in 1..3 :
        /\ NonZeroAxes(ret.value.normal) = {i}
        /\ OutwardOn(call.self, ret.value.point, ret.value.normal, i)

\* C26: the materials of a Cube are indexed as the scene construction
\* documents: 0 the +X face, 1 the -X face, 2 the +Y face, 3 the -Y face,
\* 4 the +Z face and 5 the -Z face; a hit on a face carries the material at
\* the index of that face.
C26_MaterialOfFace ==
    (call.fn = "Cube::ray_intersect" /\ ret.done /\ ~ret.panic
        /\ call.ray_direction # VZero /\ ret.value.is_intersecting /\ OnOneFace) =>
        ret.value.material = call.self.materials[DocumentedFace(ret.value.normal) + 1]

\* x is a number of the half-open interval [0, 1)
InUnitInterval(x) == FLe[0, x] /\ FLt[x, F[1]]

\* C27: every hit of Sphere and of Cube ray_intersect carries u and v in
\* [0, 1), for every size of cube and every hit point, the seam
\* (theta = pi) and the poles of the sphere included.
C27_UvInUnitInterval ==
    (IsIntersectCall /\ ret.done /\ ~ret.panic /\ call.ray_direction # VZero
        /\ ret.value.is_intersecting) =>
        /\ InUnitInterval(ret.value.u)
        /\ InUnitInterval(ret.value.v)

\* the quadratic a t^2 + b t + c of the Sphere::ray_intersect call of the
\* state, its discriminant and its two roots
QuadA == VDot[call.ray_direction, call.ray_direction]
QuadB == FMul[F[2], VDot[VSub[call.ray_origin, call.self.center], call.ray_direction]]
QuadC ==
    FSub[VDot[VSub[call.ray_origin, call.self.center],
              VSub[call.ray_origin, call.self.center]],
         FMul[call.self.radius, call.self.radius]]
Discriminant == FSub[FMul[QuadB, QuadB], FMul[FMul[F[4], QuadA], QuadC]]
SmallerRoot == FDiv[FSub[FNeg[QuadB], FSqrt[Discriminant]], FMul[F[2], QuadA]]
LargerRoot == FDiv[FAdd[FNeg[QuadB], FSqrt[Discriminant]], FMul[F[2], QuadA]]

\* C28: Sphere::ray_intersect returns a hit exactly when b^2 - 4ac > 0 and
\* the smaller root (-b - sqrt(disc)) / (2a) is > 0, and the distance of
\* the hit is that root; a tangent ray (disc = 0) is a miss and so is a ray
\* whose origin lies inside the sphere, the larger root being positive.
C28_SmallerRootOnly ==
    (call.fn = "Sphere::ray_intersect" /\ ret.done) =>
        /\ ret.value.is_intersecting
              <=> (FGt[Discriminant, 0] /\ FGt[SmallerRoot, 0])
        /\ ret.value.is_intersecting => ret.value.distance = SmallerRoot
        /\ Discriminant = 0 => ~ret.value.is_intersecting
        /\ (FGt[Discriminant, 0] /\ FLe[SmallerRoot, 0]) => ~ret.value.is_intersecting

\* a ray from strictly inside the sphere, with the sphere ahead of it at the
\* larger root, got the non-hit Intersect
C28_Witness ==
    /\ call.fn = "Sphere::ray_intersect"
    /\ ret.done
    /\ FLt[QuadC, 0]
    /\ FGt[Discriminant, 0]
    /\ FLt[SmallerRoot, 0]
    /\ FGt[LargerRoot, 0]
    /\ ~ret.value.is_intersecting

\* C29: upscale_framebuffer writes each of the high_width * high_height
\* destination pixels with the source pixel at column
\* floor(x * low_width / high_width) and row floor(y * low_height / high_height),
\* and every source index it reads is below low_width * low_height: it never
\* reads outside a buffer of at least low_width * low_height pixels.
C29_NearestNeighbour ==
    (call.fn = "upscale_framebuffer" /\ ret.done) =>
        /\ ~ret.panic
        /\ ret.aux < call.low_width * call.low_height
        /\ Len(ret.value) = call.high_width * call.high_height
        /\ \A x \in 0..(call.high_width - 1), y \in 0..(call.high_height - 1) :
              ret.value[y * call.high_width + x + 1]
                  = call.low_res_buffer[((y * call.low_height) \div call.high_height)
                                            * call.low_width
                                        + (x * call.low_width) \div call.high_width + 1]

\* a 2 x 3 buffer scaled to 4 x 4: the rows do not divide evenly, and the
\* last destination pixel holds the last source pixel
C29_Witness ==
    /\ call.fn = "upscale_framebuffer"
    /\ ret.done
    /\ ~ret.panic
    /\ call.low_width = 2 /\ call.low_height = 3
    /\ call.high_width = 4 /\ call.high_height = 4
    /\ ret.value = <<1, 1, 2, 2, 1, 1, 2, 2, 3, 3, 4, 4, 5, 5, 6, 6>>

\* ------------------------------------------------------------------------
\* render: the chunks of the framebuffer and the workers that process them
\* ------------------------------------------------------------------------
\* the window of main, scaled down, and the size of the worker pool
WinWidth == 4
WinHeight == 12
NumWorkers == 2

Workers == 1..NumWorkers

Zeros(n) == [i \in 1..n |-> 0]

\* the two render calls of main: the full-resolution one on framebuffer_high
\* and the fast-path one on framebuffer_low
RenderCalls ==
    {[buffer |-> Zeros(WinWidth * WinHeight),
      width |-> WinWidth, height |-> WinHeight],
     [buffer |-> Zeros((WinWidth \div 2) * (WinHeight \div 2)),
      width |-> WinWidth \div 4, height |-> WinHeight \div 4]}

RenderScenes ==
    {<<>>, <<UniformCube[VZero, F[2], MatteMaterial]>>}

\* the chunks par_chunks_mut(width * chunk_size) makes of a slice of len
\* slots, by chunk_idx
ChunkIndices(len, width) ==
    0..(((len + width * ChunkSize - 1) \div (width * ChunkSize)) - 1)

\* the slots of the chunk, as offsets into the framebuffer
ChunkStart(chunk_idx, width) == chunk_idx * width * ChunkSize
ChunkLen(chunk_idx, len, width) ==
    Min2[width * ChunkSize, len - ChunkStart(chunk_idx, width)]

Idle == [chunk |-> 0 - 1, y |-> 0, x |-> 0]

InitRender ==
    /\ call = [fn |-> "render"]
    /\ ret = NotCalled
    /\ objects \in RenderScenes
    /\ lights = <<LightPool[1]>>
    /\ camera = MainCamera
    /\ IdlePixel
    /\ \E c \in RenderCalls :
          /\ framebuffer = c.buffer
          /\ render_args = [width |-> c.width, height |-> c.height]
          /\ pending = ChunkIndices(Len(c.buffer), c.width)
          /\ writes = [i \in 1..Len(c.buffer) |-> <<>>]
    /\ workers = [w \in Workers |-> Idle]
    /\ returned = FALSE
    /\ IdleLoop

\* the chunks left once a worker has taken all of them
PendingShared(chunks, chunk_idx) == chunks

\* the chunks left once a worker has taken chunk_idx: each chunk goes to one task
PendingAfter(chunks, chunk_idx) == chunks \ {chunk_idx}

\* a worker of the pool takes a chunk
TakeChunk(w) ==
    /\ workers[w] = Idle
    /\ \E chunk_idx \in pending :
          /\ workers' = [workers EXCEPT ![w] = [chunk |-> chunk_idx, y |-> 0, x |-> 0]]
          /\ pending' = PendingAfter(pending, chunk_idx)
    /\ UNCHANGED <<camVars, fnVars, sceneVars, loopVars, pixVars, framebuffer, render_args, writes, returned>>

\* the position after pixel x of row y of a chunk of n slots: the next pixel
\* of the row, the next row, or the end of the chunk
NextPosition(position, n, width) ==
    IF position.y * width + position.x + 1 >= n THEN Idle
    ELSE IF position.x + 1 = width THEN [position EXCEPT !.y = @ + 1, !.x = 0]
    ELSE [position EXCEPT !.x = @ + 1]

\* the slot (from 1) of the pixel a worker is at, and its row base_y + y
SlotOf(position, width) ==
    ChunkStart(position.chunk, width) + position.y * width + position.x + 1
RowOf(position) == position.chunk * ChunkSize + position.y

\* the closure runs for the worker's pixel and stores the packed colour
ShadePixel(w) ==
    /\ workers[w] # Idle
    /\ framebuffer' =
          [framebuffer EXCEPT ![SlotOf(workers[w], render_args.width)] =
              RenderPixel[workers[w].x, RowOf(workers[w]), render_args.width,
                          render_args.height, objects, camera, lights]]
    /\ writes' =
          [writes EXCEPT ![SlotOf(workers[w], render_args.width)] =
              Append(@, [worker |-> w, chunk |-> workers[w].chunk,
                         row |-> RowOf(workers[w]), x |-> workers[w].x])]
    /\ workers' =
          [workers EXCEPT ![w] =
              NextPosition(workers[w],
                           ChunkLen(workers[w].chunk, Len(framebuffer), render_args.width),
                           render_args.width)]
    /\ UNCHANGED <<camVars, fnVars, sceneVars, loopVars, pixVars, render_args, pending, returned>>

\* for_each ends when every chunk is done: render returns
RenderReturn ==
    /\ ~returned
    /\ pending = {}
    /\ \A w \in Workers : workers[w] = Idle
    /\ returned' = TRUE
    /\ UNCHANGED <<camVars, fnVars, sceneVars, loopVars, pixVars, framebuffer, render_args, pending, workers, writes>>

NextRender ==
    \/ \E w \in Workers : TakeChunk(w)
    \/ \E w \in Workers : ShadePixel(w)
    \/ RenderReturn

SpecRender == InitRender /\ [][NextRender]_vars

\* ------------------------------------------------------------------------
\* Properties of render
\* ------------------------------------------------------------------------
Slots == 1..Len(framebuffer)

\* the chunks whose range of slots holds slot i
ChunksOf(i) ==
    {c \in ChunkIndices(Len(framebuffer), render_args.width) :
        /\ ChunkStart(c, render_args.width) < i
        /\ i <= ChunkStart(c, render_args.width)
                  + ChunkLen(c, Len(framebuffer), render_args.width)}

\* every slot lies in one chunk, is written at most once and only by the
\* worker that took its chunk, no two workers hold the same chunk, and
\* once render has returned every slot has been written
C6_SlotsWrittenOnce ==
    /\ \A i \in Slots :
          /\ Cardinality(ChunksOf(i)) = 1
          /\ Len(writes[i]) <= 1
          /\ \A k \in 1..Len(writes[i]) : writes[i][k].chunk \in ChunksOf(i)
          /\ returned => Len(writes[i]) = 1
    /\ \A v, w \in Workers :
          (v # w /\ workers[v] # Idle) => workers[v].chunk # workers[w].chunk
    /\ \A i, j \in Slots :
          (writes[i] # <<>> /\ writes[j] # <<>> /\ writes[i][1].chunk = writes[j][1].chunk)
              => writes[i][1].worker = writes[j][1].worker

\* C6: render splits the framebuffer into chunks of width * 8 slots, the
\* last one possibly shorter; under every interleaving of the workers every
\* slot belongs to exactly one chunk, is written exactly once and never by
\* two workers, and scene, camera and lights are only read.
C6_DisjointBands ==
    /\ []C6_SlotsWrittenOnce
    /\ [][objects' = objects /\ lights' = lights /\ camera' = camera]_vars

\* render has returned after two workers processed one chunk each, the
\* second chunk shorter than the first
C6_Witness ==
    /\ returned
    /\ \E i, j \in Slots :
          /\ writes[i] # <<>> /\ writes[j] # <<>>
          /\ writes[i][1].worker # writes[j][1].worker
          /\ writes[i][1].chunk = 0 /\ writes[j][1].chunk = 1
    /\ Len(framebuffer) < 2 * render_args.width * ChunkSize
    /\ \A i \in Slots : Len(writes[i]) = 1
    /\ \E i \in Slots : framebuffer[i] # 0

\* the pixels shaded so far
Shaded == {i \in Slots : writes[i] # <<>>}

\* C7: every pixel render computes has a row index below height, a
\* screen_y in [-1, 1] and a screen_x in [-aspect, aspect], and a render
\* call that has returned has shaded exactly width * height pixels.
C7_RowsBelowHeight ==
    /\ \A i \in Shaded :
          /\ writes[i][1].row < render_args.height
          /\ FLe[0 - F[1], ScreenY[writes[i][1].row, render_args.height]]
          /\ FLe[ScreenY[writes[i][1].row, render_args.height], F[1]]
          /\ FLe[FNeg[FDiv[F[render_args.width], F[render_args.height]]],
                 ScreenX[writes[i][1].x, render_args.width, render_args.height]]
          /\ FLe[ScreenX[writes[i][1].x, render_args.width, render_args.height],
                 FDiv[F[render_args.width], F[render_args.height]]]
    /\ returned => Cardinality(Shaded) = render_args.width * render_args.height

\* ------------------------------------------------------------------------
\* main: the interactive loop
\* ------------------------------------------------------------------------
MaxIterations == 3

\* the keys held down when an iteration polls them
KeySets ==
    {{}, {"W", "S"}, {"Left", "Up"}, {"Right", "Down"},
     {"W", "A", "Q"}, {"S", "D", "E"}, {"Escape"}}

LoopScene == <<UniformCube[VZero, F[2], MatteMaterial]>>

InitLoop ==
    /\ call = [fn |-> "main"]
    /\ ret = NotCalled
    /\ objects = LoopScene
    /\ lights = <<LightPool[1]>>
    /\ camera = MainCamera
    /\ IdlePixel
    /\ IdleRender
    /\ framebuffer_high = Zeros(WinWidth * WinHeight)
    /\ framebuffer_low = Zeros((WinWidth \div 2) * (WinHeight \div 2))
    /\ window = <<>>
    /\ should_render = TRUE
    /\ camera_moved = FALSE
    /\ loop_pc = "poll"
    /\ applied = <<>>
    /\ frames = <<>>
    /\ history = <<>>

\* the loop condition holds: the keys are handled
LoopPoll ==
    /\ loop_pc = "poll"
    /\ Len(frames) < MaxIterations
    /\ \E keys \in KeySets :
          /\ "Escape" \notin keys
          /\ camera' = HandleKeys[camera, keys].camera
          /\ camera_moved' = HandleKeys[camera, keys].camera_moved
          /\ applied' = HandleKeys[camera, keys].applied
    /\ loop_pc' = "display"
    /\ UNCHANGED <<camVars, fnVars, objects, lights, pixVars, renVars, framebuffer_high,
                   framebuffer_low, window, should_render, frames>>

\* the window was closed or Escape is down: the loop ends
LoopExit ==
    /\ loop_pc = "poll"
    /\ \E open \in BOOLEAN, keys \in KeySets : ~(open /\ "Escape" \notin keys)
    /\ loop_pc' = "exited"
    /\ UNCHANGED <<camVars, fnVars, sceneVars, pixVars, renVars, framebuffer_high,
                   framebuffer_low, window, should_render, camera_moved, applied, frames>>

\* the test order of a loop that looks at should_render first
BranchRenderFirst(moved, should) ==
    IF should THEN "high" ELSE IF moved THEN "low" ELSE "update"

\* the branch of the if / else if / else at the end of the iteration
Branch(moved, should) ==
    IF moved THEN "low" ELSE IF should THEN "high" ELSE "update"

\* a loop that clears the flag once the frame is rendered
ShouldRenderCleared(should) == FALSE

\* `should_render = true` after the full-resolution render
ShouldRenderAfter(should) == TRUE

\* the end of the iteration: render, display
LoopDisplay ==
    /\ loop_pc = "display"
    /\ IF Branch(camera_moved, should_render) = "low"
       THEN /\ framebuffer_low' =
                  render[framebuffer_low, WinWidth \div 4, WinHeight \div 4,
                         objects, camera, lights]
            /\ window' =
                  upscale_framebuffer[framebuffer_low', WinWidth \div 4,
                                      WinHeight \div 4, WinWidth, WinHeight]
            /\ UNCHANGED <<framebuffer_high, should_render>>
       ELSE IF Branch(camera_moved, should_render) = "high"
       THEN /\ framebuffer_high' =
                  render[framebuffer_high, WinWidth, WinHeight, objects, camera, lights]
            /\ window' = framebuffer_high'
            /\ should_render' = ShouldRenderAfter(should_render)
            /\ UNCHANGED framebuffer_low
       ELSE UNCHANGED <<framebuffer_high, framebuffer_low, window, should_render>>
    /\ frames' = Append(frames, [applied |-> applied,
                                 branch |-> Branch(camera_moved, should_render)])
    /\ loop_pc' = "poll"
    /\ UNCHANGED <<camVars, fnVars, sceneVars, pixVars, renVars, camera_moved, applied>>

NextLoop ==
    \/ LoopPoll
    \/ LoopExit
    \/ LoopDisplay

SpecLoop == InitLoop /\ [][NextLoop]_vars

\* ------------------------------------------------------------------------
\* Properties of the loop
\* ------------------------------------------------------------------------
\* the image of the scene from the pose cam at columns by rows pixels
ImageOf(cam, columns, rows) ==
    [i \in 1..(columns * rows) |->
        RenderPixel[(i - 1) % columns, (i - 1) \div columns, columns, rows,
                    objects, cam, lights]]

\* the image scaled to the window, each window pixel taking the image pixel
\* at the same relative position
ScaledToWindow(image, columns, rows) ==
    [i \in 1..(WinWidth * WinHeight) |->
        image[((((i - 1) \div WinWidth) * rows) \div WinHeight) * columns
              + (((i - 1) % WinWidth) * columns) \div WinWidth + 1]]

\* the iterations so far: one that called a camera method took the
\* low-resolution branch, one that called none took the full-resolution one
C8_BranchPerIteration ==
    \A k \in 1..Len(frames) :
        /\ frames[k].applied # <<>> => frames[k].branch = "low"
        /\ frames[k].applied = <<>> => frames[k].branch = "high"

\* the display step of an iteration
C8_DisplayStep ==
    loop_pc = "display" =>
        /\ applied # <<>> =>
              /\ window' = ScaledToWindow(ImageOf(camera, WinWidth \div 4, WinHeight \div 4),
                                          WinWidth \div 4, WinHeight \div 4)
              /\ framebuffer_high' = framebuffer_high
        /\ applied = <<>> =>
              /\ window' = ImageOf(camera, WinWidth, WinHeight)
              /\ framebuffer_high' = window'
        /\ camera' = camera

\* C8: an iteration of the loop in which orbit, move_camera or
\* move_vertical was called displays the low-resolution render of the new
\* pose scaled to the window and renders nothing at full resolution; an
\* iteration in which none was called, so the first one after the movement
\* stops, renders the current pose at full resolution and displays it.
C8_PreviewThenFull ==
    /\ []C8_BranchPerIteration
    /\ [][C8_DisplayStep]_vars

\* two iterations with movement, then one without that displayed a
\* full-resolution render different from a blank window
C8_Witness ==
    /\ Len(frames) = 3
    /\ frames[1].applied # <<>> /\ frames[1].branch = "low"
    /\ frames[2].applied # <<>> /\ frames[2].branch = "low"
    /\ frames[3].applied = <<>> /\ frames[3].branch = "high"
    /\ window = framebuffer_high
    /\ window # Zeros(WinWidth * WinHeight)
    /\ camera # MainCamera

\* ------------------------------------------------------------------------
\* Camera: sequences of method calls on one camera
\* ------------------------------------------------------------------------
MaxCameraCalls == 2

\* the camera of main and two cameras that look at their target from the
\* side, from above and from below
InitialCameras ==
    {MainCamera,
     CameraNew[Vec[F[3], F[2], F[4]], VZero, Vec[0, F[1], 0]],
     CameraNew[Vec[0 - F[2], 0 - F[1], Lit[1, 2]], Vec[F[1], 0, 0 - F[1]], Vec[0, F[1], 0]]}

\* the steps of the keys of main, and none
MoveSteps == {0 - Lit[1, 10], 0, Lit[1, 10]}
\* the deltas of the arrow keys of main, and larger turns up to more than
\* a whole turn
YawDeltas == {s * d : s \in {0 - 1, 1}, d \in {Lit[5, 100], Lit[1, 2], F[3], F[7]}}
PitchDeltas == {0 - Lit[5, 100], Lit[5, 100], 0 - F[1], F[1]}
OrbitDeltas == {<<d, 0>> : d \in YawDeltas} \cup {<<0, d>> : d \in PitchDeltas}
\* directions of primary rays in camera space
BasisVectors ==
    {Vec[0, 0, 0 - F[1]],
     VNormalize[Vec[F[1], F[1], 0 - F[1]]],
     VNormalize[Vec[0 - Lit[1, 2], Lit[1, 4], 0 - F[1]]]}

InitCamera ==
    /\ call = [fn |-> "Camera"]
    /\ ret = NotCalled
    /\ objects = <<>>
    /\ lights = <<>>
    /\ camera \in InitialCameras
    /\ IdlePixel
    /\ IdleRender
    /\ IdleLoop

Called(fn, args, after, value) ==
    [fn |-> fn, args |-> args, before |-> camera, after |-> after, value |-> value]

\* camera.move_camera(forward, rightward)
CallMoveCamera ==
    /\ Len(history) < MaxCameraCalls
    /\ \E forward \in MoveSteps, rightward \in MoveSteps :
          /\ camera' = move_camera[camera, forward, rightward]
          /\ history' = Append(history, Called("move_camera", <<forward, rightward>>, camera', <<>>))
    /\ UNCHANGED <<fnVars, objects, lights, pixVars, renVars, framebuffer_high,
                   framebuffer_low, window, should_render, camera_moved, loop_pc,
                   applied, frames>>

\* camera.move_vertical(vertical)
CallMoveVertical ==
    /\ Len(history) < MaxCameraCalls
    /\ \E vertical \in MoveSteps :
          /\ camera' = move_vertical[camera, vertical]
          /\ history' = Append(history, Called("move_vertical", <<vertical>>, camera', <<>>))
    /\ UNCHANGED <<fnVars, objects, lights, pixVars, renVars, framebuffer_high,
                   framebuffer_low, window, should_render, camera_moved, loop_pc,
                   applied, frames>>

\* camera.orbit(delta_yaw, delta_pitch)
CallOrbit ==
    /\ Len(history) < MaxCameraCalls
    /\ \E delta \in OrbitDeltas :
          /\ camera' = orbit[camera, delta[1], delta[2]]
          /\ history' = Append(history, Called("orbit", delta, camera', <<>>))
    /\ UNCHANGED <<fnVars, objects, lights, pixVars, renVars, framebuffer_high,
                   framebuffer_low, window, should_render, camera_moved, loop_pc,
                   applied, frames>>

\* a basis_change that keeps the basis it computed in the camera
SelfWithBasisUp(self) ==
    [self EXCEPT !.up = basis_change[self, Vec[0, F[1], 0]]]

\* the camera after basis_change(&self, ...): a shared borrow, nothing is stored
SelfAfterBasisChange(self) == self

\* camera.basis_change(&vector)
CallBasisChange ==
    /\ Len(history) < MaxCameraCalls
    /\ \E vector \in BasisVectors :
          /\ camera' = SelfAfterBasisChange(camera)
          /\ history' = Append(history, Called("basis_change", <<vector>>, camera',
                                               basis_change[camera, vector]))
    /\ UNCHANGED <<fnVars, objects, lights, pixVars, renVars, framebuffer_high,
                   framebuffer_low, window, should_render, camera_moved, loop_pc,
                   applied, frames>>

NextCamera ==
    \/ CallMoveCamera
    \/ CallMoveVertical
    \/ CallOrbit
    \/ CallBasisChange

SpecCamera == InitCamera /\ [][NextCamera]_vars

\* ------------------------------------------------------------------------
\* Properties of Camera
\* ------------------------------------------------------------------------
\* the camera the sequence of calls started from
FirstCamera == IF history = <<>> THEN camera ELSE history[1].before

\* the calls follow one another on the same camera
HistoryChained ==
    /\ \A k \in 1..(Len(history) - 1) : history[k + 1].before = history[k].after
    /\ history # <<>> => camera = history[Len(history)].after

\* C12: after any sequence of move_camera, move_vertical and orbit calls up
\* is the initial up; move_camera and move_vertical move eye and center by
\* the same vector, so center - eye stays; orbit changes eye only.
C12_UpAndCenterKept ==
    /\ HistoryChained
    /\ camera.up = FirstCamera.up
    /\ \A k \in 1..Len(history) :
          /\ history[k].fn \in {"move_camera", "move_vertical"} =>
                /\ VSub[history[k].after.eye, history[k].before.eye]
                      = VSub[history[k].after.center, history[k].before.center]
                /\ VSub[history[k].after.center, history[k].after.eye]
                      = VSub[history[k].before.center, history[k].before.eye]
                /\ \A i \in 1..3 : IsFin[history[k].after.eye[i]]
          /\ history[k].fn = "orbit" =>
                /\ history[k].after.center = history[k].before.center
                /\ history[k].after.up = history[k].before.up

\* a move that changed eye and center, then an orbit that changed eye
C12_Witness ==
    /\ Len(history) = 2
    /\ history[1].fn = "move_camera"
    /\ history[1].after.center # history[1].before.center
    /\ history[1].after.eye # history[1].before.eye
    /\ history[2].fn = "orbit"
    /\ history[2].after.eye # history[2].before.eye
    /\ camera.up = FirstCamera.up

OrbitTolerance == Lit[1, 10]

Near(a, b) == \A i \in 1..3 : Abs[a[i] - b[i]] <= OrbitTolerance

\* the pitch of the camera is strictly inside the clamp range
PitchInside(cam) ==
    /\ FLt[FNeg[PitchLimit], CurrentPitch[VSub[cam.eye, cam.center]]]
    /\ FLt[CurrentPitch[VSub[cam.eye, cam.center]], PitchLimit]

Radius(cam) == VMagnitude[VSub[cam.eye, cam.center]]

\* C14: for a camera whose pitch is strictly inside the clamp range,
\* orbit(d, 0) followed by orbit(-d, 0) brings eye back within tolerance,
\* with center unchanged and the distance from eye to center kept.
C14_OrbitRoundTrip ==
    \A k \in 1..(Len(history) - 1) :
        (/\ history[k].fn = "orbit" /\ history[k + 1].fn = "orbit"
         /\ history[k].args[2] = 0 /\ history[k + 1].args[2] = 0
         /\ history[k + 1].args[1] = 0 - history[k].args[1]
         /\ PitchInside(history[k].before)) =>
            /\ Near(history[k + 1].after.eye, history[k].before.eye)
            /\ history[k + 1].after.center = history[k].before.center
            /\ Abs[Radius(history[k + 1].after) - Radius(history[k].before)] <= OrbitTolerance

\* a turn of more than a whole turn and back, on a camera with a pitch
C14_Witness ==
    /\ Len(history) = 2
    /\ history[1].fn = "orbit" /\ history[2].fn = "orbit"
    /\ history[1].args = <<F[7], 0>> /\ history[2].args = <<0 - F[7], 0>>
    /\ history[1].before.eye[2] # history[1].before.center[2]
    /\ PitchInside(history[1].before)
    /\ ~Near(history[1].after.eye, history[1].before.eye)
    /\ Near(camera.eye, history[1].before.eye)

\* ------------------------------------------------------------------------
\* Properties of the should_render flag
\* ------------------------------------------------------------------------
C30_FlagStaysTrue == should_render = TRUE

C30_NoRedisplayOnly == \A k \in 1..Len(frames) : frames[k].branch # "update"

\* the display step of an iteration without camera movement
C30_StillStep ==
    (loop_pc = "display" /\ ~camera_moved) =>
        /\ framebuffer_high' = ImageOf(camera, WinWidth, WinHeight)
        /\ window' = framebuffer_high'
        /\ frames'[Len(frames')].branch = "high"

\* C30: should_render is true in every reachable state of the loop (it
\* starts true and is only ever assigned true), so the branch that calls
\* window.update() without rendering is never taken and every iteration
\* without camera movement renders at full resolution, also when nothing
\* changed since the frame before.
C30_AlwaysRenders ==
    /\ []C30_FlagStaysTrue
    /\ []C30_NoRedisplayOnly
    /\ [][C30_StillStep]_vars

\* two iterations in a row without any key: the second rendered the same
\* pose at full resolution again
C30_Witness ==
    /\ Len(frames) >= 2
    /\ frames[1].applied = <<>> /\ frames[1].branch = "high"
    /\ frames[2].applied = <<>> /\ frames[2].branch = "high"
    /\ camera = MainCamera
    /\ should_render
    /\ window = ImageOf(MainCamera, WinWidth, WinHeight)
    /\ window # Zeros(WinWidth * WinHeight)

====
